---------------------------- MODULE Spec2Model ----------------------------
(***************************************************************************)
(* Model of the round-scheduling core of elixxir-comms:                    *)
(*   - WaitingRounds (network/dataStructures/waitingRounds.go): the list   *)
(*     of queued rounds ordered by realtime timestamp, and the blocking    *)
(*     GetUpcomingRealtime with its waiter goroutine, timer and sig        *)
(*     channel;                                                            *)
(*   - RoundEvents (network/dataStructures/roundEvents.go): the registry   *)
(*     of per-round, per-state event callbacks;                            *)
(* and of what its callers use around it:                                  *)
(*   - connect.Host (connect/host.go) and connect.Circuit;                 *)
(*   - dataStructures.Ndf (network/dataStructures/ndf.go) and              *)
(*     client.Comms.RetrieveNdf (client/registration.go).                  *)
(* The specifications share the variables:                                 *)
(*   SpecIns  sequential Insert calls on the list,                         *)
(*   SpecWR   Insert calls concurrent with GetUpcomingRealtime callers,    *)
(*   SpecGS   Insert calls concurrent with a thread that uses the slice    *)
(*            it got from GetSlice,                                        *)
(*   SpecLK   Insert, GetUpcomingRealtime, GetSlice and Len followed lock  *)
(*            by lock (FairSpecLK adds the scheduler's fairness),          *)
(*   SpecBad  Insert and TriggerRoundEvent on malformed rounds,            *)
(*   SpecHost send and stream of a connect.Host concurrent with connect,   *)
(*            Disconnect and authenticate,                                 *)
(*   SpecDial the dial loop of Host.connect attempt by attempt,            *)
(*   SpecCirc the calls on a connect.Circuit,                              *)
(*   SpecNdf  Update and CompareHash of a dataStructures.Ndf,              *)
(*   SpecReg  one RetrieveNdf call and the answers to its requests,        *)
(*   SpecRE   AddRoundEvent / TriggerRoundEvent / Remove and the waiters   *)
(*            (FairSpecRE adds the scheduler's and the timers' fairness).  *)
(***************************************************************************)
EXTENDS Integers, Sequences, FiniteSets, TLC

(***************************************************************************)
(* Bounds of the model.                                                    *)
(***************************************************************************)
\* round ids are 1..MaxRoundID
MaxRoundID == 2
\* realtime timestamps are 1..MaxTime
MaxTime == 3
\* a QUEUED Insert is taken only while the list is shorter than this
MaxLen == 3
\* number of GetUpcomingRealtime calls (each by its own caller thread)
NumCallers == 1
\* while GetUpcomingRealtime callers run, a QUEUED Insert is taken only while
\* the list is shorter than this
MaxWaitLen == 2
\* number of AddRoundEvent calls (each makes one eventCallback)
NumEvents == 2
\* number of TriggerRoundEvent calls (each by its own thread of the feed)
NumTriggers == 2
\* threads that call Host.send or Host.stream
NumSenders == 2
\* dial attempts of a connect call that runs beside senders
MaxDials == 2
\* dial attempts of one connect call that is followed attempt by attempt
MaxAttempts == 130
\* nodes of a Circuit
MaxNodes == 4
\* network definitions
MaxDefs == 2
\* RequestNdf calls of one RetrieveNdf call
MaxRequests == 3

(***************************************************************************)
(* Program constants (gitlab.com/elixxir/primitives/states).               *)
(***************************************************************************)
QUEUED == 3
REALTIME == 4
NUM_STATES == 7
\* host.maxRetries as NewHost sets it: 100, or math.MaxInt32
DefaultMaxRetries == 100
MaxInt32 == 2147483647
\* the cap of backoffTime
MaxBackoff == 15
\* time.Second, in milliseconds
Second == 1000

RoundIDs == 1..MaxRoundID
Times == 1..MaxTime
Callers == 1..NumCallers
Events == 1..NumEvents
Triggers == 1..NumTriggers
\* states.Round: the indices of the per-round array of callback maps
StateIdx == 0..(NUM_STATES - 1)
\* the round states given to AddRoundEvent and TriggerRoundEvent
EventStates == {QUEUED, REALTIME}

\* pb.RoundInfo, reduced to the fields the core reads: ID, State and
\* Timestamps[current.REALTIME]
RoundInfos == [ID : RoundIDs, State : {QUEUED, REALTIME}, Timestamp : Times]

\* the rounds inserted while GetUpcomingRealtime callers run: the order of
\* the list plays no part in the waiting, so they all carry the same time
WaitRoundInfos == {r \in RoundInfos : r.Timestamp = 1}

\* the rounds inserted while the locks are followed step by step: which
\* round it is plays no part in the locking, so they are all of round 1
LockRoundInfos == {r \in WaitRoundInfos : r.ID = 1}

\* the nil *pb.RoundInfo
NilRound == [ID |-> 0, State |-> 0, Timestamp |-> 0]

\* the operations that read the list and are called by threads of their own
ReadOps == {"Len", "GetSlice"}

\* a thread as the holder of a lock: the thread in Insert, the thread in
\* GetSlice, the caller c of GetUpcomingRealtime and its waiter goroutine
Holder(kind, c) == [kind |-> kind, c |-> c]

\* nobody holds the lock
NoHolder == Holder("none", 0)

VARIABLES
    rounds,       \* wr.rounds: the list, front first
    lastState,    \* history: State of the most recent Insert per round id (0: none)
    lastOp,       \* history: what the most recent Insert did to the list
    cpc,          \* per caller: position in GetUpcomingRealtime
    timerC,       \* per caller: timer.C holds a value (the timer has fired)
    sig,          \* per caller: number of values in the sig channel (capacity 1)
    wpc,          \* per caller: position of the waiter goroutine
    result,       \* per caller: what GetUpcomingRealtime returned
    sawEmpty,     \* history, per caller: the list was empty at some point of the call
    sawNonEmpty,  \* history, per caller: the list was non-empty at some point of the call
    dueRound,     \* history, per caller: the list held a round when the timer fired,
                  \* and no round has been removed since
    emptyWakeups, \* history, per caller: wakeups by sig that found the list empty
    gpc,          \* position of the thread that calls GetSlice: "idle", "got"
    slice,        \* the slice GetSlice returned to that thread: per element the
                  \* *pb.RoundInfo it points to, as the position of that object in
                  \* the list (0: not in the list) and the object's fields
    inserted,     \* history: the rounds given to Insert so far, while once holds
    once,         \* history: the Insert calls so far had pairwise different ids
                  \* and pairwise different realtime timestamps
    muxW,         \* wr.mux is held by a writer (Lock)
    muxR,         \* the threads that hold wr.mux as readers (RLock)
    cL,           \* the thread that holds wr.c.L
    ipc,          \* position of the thread that calls Insert, lock by lock
    ins,          \* the round that thread is inserting
    rpc,          \* per reading operation (Len, GetSlice): position of its thread
    failed        \* the operation that has panicked ("none": no operation)

VARIABLES
    callbacks,    \* r.callbacks: round id -> state -> set of eventCallbacks
    evRid,        \* per event: the rid given to AddRoundEvent (0: not made yet)
    evStates,     \* per event: eventCallback.states
    signal,       \* per event: eventCallback.signal, a channel of capacity 1
    apc,          \* per event: position of the AddRoundEvent call
    ewpc,         \* per event: position of the waiter goroutine
    etimer,       \* per event: the channel of time.After holds a value
    rmpc,         \* per event: position of the goroutine "go r.Remove(rid, thisEvent)"
    cb,           \* per event: the calls of the callback so far
    tpc,          \* per trigger thread: position in TriggerRoundEvent
    tri,          \* per trigger thread: the ri given to TriggerRoundEvent
    tcur,         \* per trigger thread: the event the range loop is at (0: none)
    tevents,      \* per trigger thread: the local slice events
    tlate,        \* history, per trigger thread: the events some returned call had
                  \* delivered to when this call began
    delivered     \* history: the events some returned TriggerRoundEvent call sent to

VARIABLES
    hmaxRetries,  \* Host.maxRetries (0: NewHost not called yet)
    hconn,        \* Host.connection: the *grpc.ClientConn (0: nil)
    cstate,       \* per connection object: its connectivity state
    htoken,       \* Host.token
    hmuxW,        \* the operation that holds Host.mux as writer
    hreaders,     \* the send and stream calls that hold Host.mux as readers
    spc,          \* per sender: position in Host.send or Host.stream
    skind,        \* per sender: "send" or "stream"
    sconn,        \* per sender: the connection f was called with
    stoken,       \* history, per sender: Host.token when f was called
    sres,         \* per sender: what the call returned
    kpc,          \* position of the thread in Host.connect
    numRetries,   \* connectHelper: the loop counter
    dials,        \* history: the dial attempts of the connect call
    backoffs,     \* history: the dial timeouts of the attempt before the
                  \* last and of the last attempt of the connect call
    kres,         \* what connect returned
    dpc,          \* position of the thread in Host.Disconnect
    upc           \* position of the thread in Host.authenticate

VARIABLES
    heap,         \* the backing arrays of the node slices
    circ,         \* the Circuit made by New
    corig,        \* history: the list given to New
    cres          \* the last call on the circuit and what it returned

VARIABLES
    nf,           \* Ndf.f
    npb,          \* Ndf.pb
    nhash,        \* Ndf.hash
    nprev,        \* history: f, pb and hash before the last Update
    nres          \* the last call on the Ndf and what it returned

VARIABLES
    qpc,          \* position of the thread in RetrieveNdf
    qresp,        \* RetrieveNdf: the local response
    qerr,         \* RetrieveNdf: the local err
    answers,      \* history: what the RequestNdf calls of the call returned
    qres          \* what RetrieveNdf returned

reVars == <<callbacks, evRid, evStates, signal, apc, ewpc, etimer, rmpc, cb,
            tpc, tri, tcur, tevents, tlate, delivered>>

wrVars == <<rounds, lastState, lastOp, cpc, timerC, sig, wpc, result,
            sawEmpty, sawNonEmpty, dueRound, emptyWakeups,
            gpc, slice, inserted, once, muxW, muxR, cL, ipc, ins, rpc, failed>>

\* the state of the locks of WaitingRounds and of the threads seen lock by lock
lkVars == <<muxW, muxR, cL, ipc, ins, rpc>>

hostVars == <<hmaxRetries, hconn, cstate, htoken, hmuxW, hreaders, spc, skind,
              sconn, stoken, sres, kpc, numRetries, dials, backoffs, kres, dpc, upc>>

circVars == <<heap, circ, corig, cres>>

ndfVars == <<nf, npb, nhash, nprev, nres>>

regVars == <<qpc, qresp, qerr, answers, qres>>

extVars == <<hostVars, circVars, ndfVars, regVars>>

vars == <<wrVars, reVars, extVars>>

(***************************************************************************)
(* container/list, as a sequence.                                          *)
(***************************************************************************)
\* list.InsertAfter(v, e), e the element at position i (0: PushFront)
InsertAfter(s, v, i) ==
    [k \in 1..(Len(s) + 1) |->
        IF k <= i THEN s[k] ELSE IF k = i + 1 THEN v ELSE s[k - 1]]

\* list.Remove(e), e the element at position i
RemoveAt(s, i) ==
    [k \in 1..(Len(s) - 1) |-> IF k < i THEN s[k] ELSE s[k + 1]]

\* getTime: the timestamp for the round's realtime
getTime(round) == round.Timestamp

(***************************************************************************)
(* WaitingRounds.Insert, the QUEUED branch: walk from the back to the       *)
(* first element whose time is smaller than the new round's; 0 when there  *)
(* is none (PushFront).                                                    *)
(***************************************************************************)
\* mutant: the comparison of line 60 turned round
RECURSIVE InsertScan_Less(_, _, _)
InsertScan_Less(s, newRound, i) ==
    IF i = 0 THEN 0
    ELSE IF getTime(newRound) < getTime(s[i]) THEN i
    ELSE InsertScan_Less(s, newRound, i - 1)

RECURSIVE InsertScan(_, _, _)
InsertScan(s, newRound, i) ==
    IF i = 0 THEN 0
    ELSE IF getTime(newRound) > getTime(s[i]) THEN i
    ELSE InsertScan(s, newRound, i - 1)

\* mutant: the new round always goes to the back
InsertQueued_PushBack(s, newRound) == InsertAfter(s, newRound, Len(s))

InsertQueued(s, newRound) ==
    InsertAfter(s, newRound, InsertScan(s, newRound, Len(s)))

(***************************************************************************)
(* WaitingRounds.remove: walk from the back to the first element with the  *)
(* round's ID and remove it; nothing when there is none.                   *)
(***************************************************************************)
\* mutant: without a match the walk ends at the front element
RECURSIVE RemoveScan_NoMatchFront(_, _, _)
RemoveScan_NoMatchFront(s, id, i) ==
    IF i = 0 THEN (IF Len(s) > 0 THEN 1 ELSE 0)
    ELSE IF s[i].ID = id THEN i
    ELSE RemoveScan_NoMatchFront(s, id, i - 1)

RECURSIVE RemoveScan(_, _, _)
RemoveScan(s, id, i) ==
    IF i = 0 THEN 0
    ELSE IF s[i].ID = id THEN i
    ELSE RemoveScan(s, id, i - 1)

\* the elements of s whose ID is not id, in their order
RECURSIVE OtherIDs(_, _)
OtherIDs(s, id) ==
    IF s = <<>> THEN <<>>
    ELSE IF Head(s).ID = id THEN OtherIDs(Tail(s), id)
    ELSE <<Head(s)>> \o OtherIDs(Tail(s), id)

\* mutant: the walk does not stop at the first match
remove_EveryMatch(s, newRound) == OtherIDs(s, newRound.ID)

remove(s, newRound) ==
    LET i == RemoveScan(s, newRound.ID, Len(s))
    IN  IF i = 0 THEN s ELSE RemoveAt(s, i)

\* the list after Insert(newRound)
InsertList(s, newRound) ==
    IF newRound.State = QUEUED THEN InsertQueued(s, newRound)
    ELSE remove(s, newRound)

\* the elements of the list are *pb.RoundInfo: an Insert moves the objects
\* that a slice sl points to as it moves the elements of the list s, and a
\* removed object is in the list no more
Relink(sl, s, newRound) ==
    IF newRound.State = QUEUED
    THEN LET p == InsertScan(s, newRound, Len(s))
         IN  [k \in 1..Len(sl) |->
                 [sl[k] EXCEPT !.at = IF @ > p THEN @ + 1 ELSE @]]
    ELSE LET i == RemoveScan(s, newRound.ID, Len(s))
         IN  IF i = 0 THEN sl
             ELSE [k \in 1..Len(sl) |->
                      [sl[k] EXCEPT !.at = IF @ = i THEN 0
                                           ELSE IF @ > i THEN @ - 1 ELSE @]]

\* Len
WRLen == Len(rounds)

\* GetSlice: a slice of Len() elements filled front to back
GetSlice == [i \in 1..WRLen |-> rounds[i]]

\* mutant: the front of the list instead of the back
getFurthest_Front(s) == IF Len(s) = 0 THEN NilRound ELSE s[1]

\* getFurthest: nil on an empty list, else the last element
getFurthest(s) == IF Len(s) = 0 THEN NilRound ELSE s[Len(s)]

(***************************************************************************)
(* GetUpcomingRealtime, per caller c.                                      *)
(*   cpc: "idle"   not called yet                                          *)
(*        "check"  timer and sig made, waiter spawned, before getFurthest  *)
(*        "select" in the for/select loop                                  *)
(*        "done"   returned                                                *)
(*   wpc: "idle"   not spawned                                             *)
(*        "start"  spawned, before wr.c.L.Lock(); wr.c.Wait()              *)
(*        "wait"   in wr.c.Wait(), on the condition's notify list          *)
(*        "woken"  taken off the notify list by a Broadcast                *)
(*        "done"   has sent on sig and ended                               *)
(***************************************************************************)
InCall(c) == cpc[c] \in {"check", "select"}

\* wr.c.Broadcast(): every goroutine in Wait is woken
Broadcast(w) == [c \in Callers |-> IF w[c] = "wait" THEN "woken" ELSE w[c]]

\* Insert(newRound): the whole call, under wr.mux; the QUEUED branch
\* broadcasts under wr.c.L after the list has changed
Insert(newRound) ==
    /\ rounds' = InsertList(rounds, newRound)
    /\ wpc' = IF newRound.State = QUEUED THEN Broadcast(wpc) ELSE wpc
    /\ sawEmpty' = [c \in Callers |-> sawEmpty[c] \/ (InCall(c) /\ rounds' = <<>>)]
    /\ sawNonEmpty' = [c \in Callers |-> sawNonEmpty[c] \/ (InCall(c) /\ rounds' # <<>>)]
    /\ dueRound' = [c \in Callers |-> dueRound[c] /\ Len(rounds') >= Len(rounds)]
    /\ slice' = Relink(slice, rounds, newRound)
    /\ UNCHANGED <<cpc, timerC, sig, result, emptyWakeups, gpc, lkVars, failed>>
    /\ UNCHANGED reVars
    /\ UNCHANGED extVars

\* history of Insert(newRound): the State last given for the round's id,
\* whether the call added an element, removed one or left the list alone,
\* and the rounds given so far while their ids and their times all differ
Observe(newRound) ==
    /\ lastState' = [lastState EXCEPT ![newRound.ID] = newRound.State]
    /\ lastOp' = IF Len(rounds') > Len(rounds) THEN "added"
                 ELSE IF Len(rounds') < Len(rounds) THEN "removed"
                 ELSE "none"
    /\ once' = (/\ once
                /\ \A r \in inserted : /\ r.ID # newRound.ID
                                       /\ getTime(r) # getTime(newRound))
    /\ inserted' = IF once' THEN inserted \cup {newRound} ELSE {}

\* the unobserved Insert: the histories stay as they are
Unobserved == UNCHANGED <<lastState, lastOp, inserted, once>>

\* GetUpcomingRealtime is entered: time.NewTimer, make(chan, 1), go func()
Call(c) ==
    /\ cpc[c] = "idle"
    /\ cpc' = [cpc EXCEPT ![c] = "check"]
    /\ wpc' = [wpc EXCEPT ![c] = "start"]
    /\ sawEmpty' = [sawEmpty EXCEPT ![c] = (rounds = <<>>)]
    /\ sawNonEmpty' = [sawNonEmpty EXCEPT ![c] = (rounds # <<>>)]
    /\ UNCHANGED <<rounds, lastState, lastOp, timerC, sig, result, dueRound, emptyWakeups>>
    /\ UNCHANGED <<gpc, slice, inserted, once, lkVars, failed>>
    /\ UNCHANGED reVars
    /\ UNCHANGED extVars

\* the runtime fires the timer: a value is put into timer.C
TimerFire(c) ==
    /\ InCall(c)
    /\ ~timerC[c]
    /\ timerC' = [timerC EXCEPT ![c] = TRUE]
    /\ dueRound' = [dueRound EXCEPT ![c] = (rounds # <<>>)]
    /\ UNCHANGED <<rounds, lastState, lastOp, cpc, sig, wpc, result,
                   sawEmpty, sawNonEmpty, emptyWakeups>>
    /\ UNCHANGED <<gpc, slice, inserted, once, lkVars, failed>>
    /\ UNCHANGED reVars
    /\ UNCHANGED extVars

\* waiter goroutine: wr.c.L.Lock(); wr.c.Wait() puts it on the notify list
\* and releases wr.c.L
WaiterWait(c) ==
    /\ wpc[c] = "start"
    /\ wpc' = [wpc EXCEPT ![c] = "wait"]
    /\ UNCHANGED <<rounds, lastState, lastOp, cpc, timerC, sig, result,
                   sawEmpty, sawNonEmpty, dueRound, emptyWakeups>>
    /\ UNCHANGED <<gpc, slice, inserted, once, lkVars, failed>>
    /\ UNCHANGED reVars
    /\ UNCHANGED extVars

\* waiter goroutine, woken: Wait returns, wr.c.L.Unlock(), sig <- struct{}{}
WaiterSend(c) ==
    /\ wpc[c] = "woken"
    /\ sig[c] < 1
    /\ sig' = [sig EXCEPT ![c] = sig[c] + 1]
    /\ wpc' = [wpc EXCEPT ![c] = "done"]
    /\ UNCHANGED <<rounds, lastState, lastOp, cpc, timerC, result,
                   sawEmpty, sawNonEmpty, dueRound, emptyWakeups>>
    /\ UNCHANGED <<gpc, slice, inserted, once, lkVars, failed>>
    /\ UNCHANGED reVars
    /\ UNCHANGED extVars

\* what a return of GetUpcomingRealtime hands out
Returned(round, err, path) == [round |-> round, err |-> err, path |-> path]

NoResult == Returned(NilRound, "none", "none")

\* mutant: an empty list is reported as timed out at once
CheckFirst_NoWait(c) ==
    /\ cpc[c] = "check"
    /\ LET round == getFurthest(rounds)
       IN  /\ cpc' = [cpc EXCEPT ![c] = "done"]
           /\ result' = [result EXCEPT ![c] =
                  IF round # NilRound THEN Returned(round, "nil", "nowait")
                  ELSE Returned(NilRound, "timeOutError", "nowait")]
    /\ UNCHANGED <<rounds, lastState, lastOp, timerC, sig, wpc,
                   sawEmpty, sawNonEmpty, dueRound, emptyWakeups>>
    /\ UNCHANGED <<gpc, slice, inserted, once, lkVars, failed>>
    /\ UNCHANGED reVars
    /\ UNCHANGED extVars

\* mutant: the list is not looked at before the select loop
CheckFirst_Skip(c) ==
    /\ cpc[c] = "check"
    /\ cpc' = [cpc EXCEPT ![c] = "select"]
    /\ UNCHANGED <<rounds, lastState, lastOp, timerC, sig, wpc, result,
                   sawEmpty, sawNonEmpty, dueRound, emptyWakeups>>
    /\ UNCHANGED <<gpc, slice, inserted, once, lkVars, failed>>
    /\ UNCHANGED reVars
    /\ UNCHANGED extVars

\* mutant: the round handed out is taken off the list
CheckFirst_Pop(c) ==
    /\ cpc[c] = "check"
    /\ LET round == getFurthest(rounds)
       IN  IF round # NilRound
           THEN /\ cpc' = [cpc EXCEPT ![c] = "done"]
                /\ result' = [result EXCEPT ![c] = Returned(round, "nil", "nowait")]
                /\ rounds' = RemoveAt(rounds, Len(rounds))
           ELSE /\ cpc' = [cpc EXCEPT ![c] = "select"]
                /\ UNCHANGED <<result, rounds>>
    /\ UNCHANGED <<lastState, lastOp, timerC, sig, wpc,
                   sawEmpty, sawNonEmpty, dueRound, emptyWakeups>>
    /\ UNCHANGED <<gpc, slice, inserted, once, lkVars, failed>>
    /\ UNCHANGED reVars
    /\ UNCHANGED extVars

\* round := wr.getFurthest(); if round != nil { return round, nil }
CheckFirst(c) ==
    /\ cpc[c] = "check"
    /\ LET round == getFurthest(rounds)
       IN  IF round # NilRound
           THEN /\ cpc' = [cpc EXCEPT ![c] = "done"]
                /\ result' = [result EXCEPT ![c] = Returned(round, "nil", "nowait")]
           ELSE /\ cpc' = [cpc EXCEPT ![c] = "select"]
                /\ UNCHANGED result
    /\ UNCHANGED <<rounds, lastState, lastOp, timerC, sig, wpc,
                   sawEmpty, sawNonEmpty, dueRound, emptyWakeups>>
    /\ UNCHANGED <<gpc, slice, inserted, once, lkVars, failed>>
    /\ UNCHANGED reVars
    /\ UNCHANGED extVars

\* case <-timer.C: return nil, timeOutError
SelectTimer(c) ==
    /\ cpc[c] = "select"
    /\ timerC[c]
    /\ cpc' = [cpc EXCEPT ![c] = "done"]
    /\ result' = [result EXCEPT ![c] = Returned(NilRound, "timeOutError", "timer")]
    /\ UNCHANGED <<rounds, lastState, lastOp, timerC, sig, wpc,
                   sawEmpty, sawNonEmpty, dueRound, emptyWakeups>>
    /\ UNCHANGED <<gpc, slice, inserted, once, lkVars, failed>>
    /\ UNCHANGED reVars
    /\ UNCHANGED extVars

\* mutant: the round read after a wakeup is returned without the nil check
SelectSig_NoCheck(c) ==
    /\ cpc[c] = "select"
    /\ sig[c] > 0
    /\ sig' = [sig EXCEPT ![c] = sig[c] - 1]
    /\ cpc' = [cpc EXCEPT ![c] = "done"]
    /\ result' = [result EXCEPT ![c] = Returned(getFurthest(rounds), "nil", "sig")]
    /\ UNCHANGED <<rounds, lastState, lastOp, timerC, wpc, sawEmpty, sawNonEmpty,
                   dueRound, emptyWakeups>>
    /\ UNCHANGED <<gpc, slice, inserted, once, lkVars, failed>>
    /\ UNCHANGED reVars
    /\ UNCHANGED extVars

\* case <-sig: round := wr.getFurthest(); if round != nil { return round, nil }
SelectSig(c) ==
    /\ cpc[c] = "select"
    /\ sig[c] > 0
    /\ sig' = [sig EXCEPT ![c] = sig[c] - 1]
    /\ LET round == getFurthest(rounds)
       IN  IF round # NilRound
           THEN /\ cpc' = [cpc EXCEPT ![c] = "done"]
                /\ result' = [result EXCEPT ![c] = Returned(round, "nil", "sig")]
                /\ UNCHANGED emptyWakeups
           ELSE /\ emptyWakeups' = [emptyWakeups EXCEPT ![c] = emptyWakeups[c] + 1]
                /\ UNCHANGED <<cpc, result>>
    /\ UNCHANGED <<rounds, lastState, lastOp, timerC, wpc, sawEmpty, sawNonEmpty, dueRound>>
    /\ UNCHANGED <<gpc, slice, inserted, once, lkVars, failed>>
    /\ UNCHANGED reVars
    /\ UNCHANGED extVars

(***************************************************************************)
(* A thread that calls GetSlice and then uses what it got.                  *)
(***************************************************************************)
\* roundInfos[i] = e.Value.(*pb.RoundInfo): a new slice whose elements are
\* the pointers the list holds
GetSliceCall ==
    /\ gpc = "idle"
    /\ gpc' = "got"
    /\ slice' = [i \in 1..Len(GetSlice) |-> [at |-> i, round |-> GetSlice[i]]]
    /\ UNCHANGED <<rounds, lastState, lastOp, cpc, timerC, sig, wpc, result,
                   sawEmpty, sawNonEmpty, dueRound, emptyWakeups, inserted, once>>
    /\ UNCHANGED <<lkVars, failed>>
    /\ UNCHANGED reVars
    /\ UNCHANGED extVars

\* the object at position at of the list, with a new realtime timestamp
WriteTime(s, at, ts) ==
    IF at = 0 THEN s ELSE [s EXCEPT ![at].Timestamp = ts]

\* the thread changes a round of the slice: slice[i].Timestamps[REALTIME] = ts
\* writes to the object the element points to
SliceWrite(i, ts) ==
    /\ gpc = "got"
    /\ i \in 1..Len(slice)
    /\ slice' = [k \in 1..Len(slice) |->
                    IF k = i \/ (slice[i].at # 0 /\ slice[k].at = slice[i].at)
                    THEN [slice[k] EXCEPT !.round.Timestamp = ts]
                    ELSE slice[k]]
    /\ rounds' = WriteTime(rounds, slice[i].at, ts)
    /\ UNCHANGED <<lastState, lastOp, cpc, timerC, sig, wpc, result,
                   sawEmpty, sawNonEmpty, dueRound, emptyWakeups, gpc, inserted, once>>
    /\ UNCHANGED <<lkVars, failed>>
    /\ UNCHANGED reVars
    /\ UNCHANGED extVars

\* the thread changes the slice: slice[i] = r, a round of its own
SliceStore(i, r) ==
    /\ gpc = "got"
    /\ i \in 1..Len(slice)
    /\ slice' = [slice EXCEPT ![i] = [at |-> 0, round |-> r]]
    /\ UNCHANGED <<rounds, lastState, lastOp, cpc, timerC, sig, wpc, result,
                   sawEmpty, sawNonEmpty, dueRound, emptyWakeups, gpc, inserted, once>>
    /\ UNCHANGED <<lkVars, failed>>
    /\ UNCHANGED reVars
    /\ UNCHANGED extVars

(***************************************************************************)
(* WaitingRounds lock by lock: wr.mux (sync.RWMutex) and wr.c.L (the        *)
(* sync.Mutex of the condition).                                           *)
(*   ipc: "idle"    no Insert call under way                               *)
(*        "want"    in wr.mux.Lock(): new readers wait, the readers inside *)
(*                  are waited for                                         *)
(*        "locked"  holds wr.mux, the list not yet changed                 *)
(*        "mutated" QUEUED branch, the list changed, before wr.c.L.Lock()  *)
(*        "cond"    holds wr.c.L, before Broadcast                         *)
(*   cpc: "check"   before getFurthest's wr.mux.RLock()                    *)
(*        "reading" in getFurthest, holds the read lock                    *)
(*   wpc: "locked"  holds wr.c.L, before wr.c.Wait()                       *)
(*        "relocked" Wait has taken wr.c.L again and returned              *)
(*   rpc: "idle", "reading"                                                *)
(***************************************************************************)
\* what the steps of this section leave alone: the histories of the other
\* specifications
lkFrame == <<lastState, lastOp, sawEmpty, sawNonEmpty, dueRound, emptyWakeups,
             gpc, slice, inserted, once, failed>>

\* Insert(newRound) is entered: wr.mux.Lock() announces the writer
InsertWant(newRound) ==
    /\ ipc = "idle"
    /\ newRound.State = QUEUED => Len(rounds) < MaxWaitLen
    /\ ipc' = "want"
    /\ ins' = newRound
    /\ UNCHANGED <<rounds, cpc, timerC, sig, wpc, result, muxW, muxR, cL, rpc>>
    /\ UNCHANGED lkFrame
    /\ UNCHANGED reVars
    /\ UNCHANGED extVars

\* wr.mux.Lock() returns: no reader is inside
InsertLock ==
    /\ ipc = "want"
    /\ ~muxW
    /\ muxR = {}
    /\ muxW' = TRUE
    /\ ipc' = "locked"
    /\ UNCHANGED <<rounds, cpc, timerC, sig, wpc, result, muxR, cL, ins, rpc>>
    /\ UNCHANGED lkFrame
    /\ UNCHANGED reVars
    /\ UNCHANGED extVars

\* lines 55-83 up to the broadcast: the list is changed; the remove branch
\* returns, and the deferred wr.mux.Unlock() runs
InsertBody ==
    /\ ipc = "locked"
    /\ rounds' = InsertList(rounds, ins)
    /\ IF ins.State = QUEUED
       THEN /\ ipc' = "mutated"
            /\ UNCHANGED <<muxW, ins>>
       ELSE /\ ipc' = "idle"
            /\ muxW' = FALSE
            /\ ins' = NilRound
    /\ UNCHANGED <<cpc, timerC, sig, wpc, result, muxR, cL, rpc>>
    /\ UNCHANGED lkFrame
    /\ UNCHANGED reVars
    /\ UNCHANGED extVars

\* wr.c.L.Lock(), with wr.mux held
InsertCondLock ==
    /\ ipc = "mutated"
    /\ cL = NoHolder
    /\ cL' = Holder("Insert", 0)
    /\ ipc' = "cond"
    /\ UNCHANGED <<rounds, cpc, timerC, sig, wpc, result, muxW, muxR, ins, rpc>>
    /\ UNCHANGED lkFrame
    /\ UNCHANGED reVars
    /\ UNCHANGED extVars

\* wr.c.Broadcast(); wr.c.L.Unlock(); return, and the deferred wr.mux.Unlock()
InsertBroadcast ==
    /\ ipc = "cond"
    /\ wpc' = Broadcast(wpc)
    /\ cL' = NoHolder
    /\ muxW' = FALSE
    /\ ipc' = "idle"
    /\ ins' = NilRound
    /\ UNCHANGED <<rounds, cpc, timerC, sig, result, muxR, rpc>>
    /\ UNCHANGED lkFrame
    /\ UNCHANGED reVars
    /\ UNCHANGED extVars

\* GetUpcomingRealtime is entered: time.NewTimer, make(chan, 1), go func()
CallEnter(c) ==
    /\ cpc[c] = "idle"
    /\ cpc' = [cpc EXCEPT ![c] = "check"]
    /\ wpc' = [wpc EXCEPT ![c] = "start"]
    /\ UNCHANGED <<rounds, timerC, sig, result>>
    /\ UNCHANGED lkVars
    /\ UNCHANGED lkFrame
    /\ UNCHANGED reVars
    /\ UNCHANGED extVars

\* the runtime fires the timer of the call
CallTimerFire(c) ==
    /\ cpc[c] \in {"check", "reading", "select"}
    /\ ~timerC[c]
    /\ timerC' = [timerC EXCEPT ![c] = TRUE]
    /\ UNCHANGED <<rounds, cpc, sig, wpc, result>>
    /\ UNCHANGED lkVars
    /\ UNCHANGED lkFrame
    /\ UNCHANGED reVars
    /\ UNCHANGED extVars

\* getFurthest: wr.mux.RLock() returns; no writer holds the lock or waits
\* for it
FurthestRLock(c) ==
    /\ cpc[c] = "check"
    /\ ~muxW
    /\ ipc # "want"
    /\ muxR' = muxR \cup {Holder("caller", c)}
    /\ cpc' = [cpc EXCEPT ![c] = "reading"]
    /\ UNCHANGED <<rounds, timerC, sig, wpc, result, muxW, cL, ipc, ins, rpc>>
    /\ UNCHANGED lkFrame
    /\ UNCHANGED reVars
    /\ UNCHANGED extVars

\* getFurthest reads the list and returns (deferred wr.mux.RUnlock());
\* if round != nil { return round, nil }, else on to the select
FurthestRead(c) ==
    /\ cpc[c] = "reading"
    /\ muxR' = muxR \ {Holder("caller", c)}
    /\ LET round == getFurthest(rounds)
       IN  IF round # NilRound
           THEN /\ cpc' = [cpc EXCEPT ![c] = "done"]
                /\ result' = [result EXCEPT ![c] = Returned(round, "nil", "read")]
           ELSE /\ cpc' = [cpc EXCEPT ![c] = "select"]
                /\ UNCHANGED result
    /\ UNCHANGED <<rounds, timerC, sig, wpc, muxW, cL, ipc, ins, rpc>>
    /\ UNCHANGED lkFrame
    /\ UNCHANGED reVars
    /\ UNCHANGED extVars

\* case <-timer.C: return nil, timeOutError
CallSelectTimer(c) ==
    /\ cpc[c] = "select"
    /\ timerC[c]
    /\ cpc' = [cpc EXCEPT ![c] = "done"]
    /\ result' = [result EXCEPT ![c] = Returned(NilRound, "timeOutError", "timer")]
    /\ UNCHANGED <<rounds, timerC, sig, wpc>>
    /\ UNCHANGED lkVars
    /\ UNCHANGED lkFrame
    /\ UNCHANGED reVars
    /\ UNCHANGED extVars

\* case <-sig: on to getFurthest again
CallSelectSig(c) ==
    /\ cpc[c] = "select"
    /\ sig[c] > 0
    /\ sig' = [sig EXCEPT ![c] = sig[c] - 1]
    /\ cpc' = [cpc EXCEPT ![c] = "check"]
    /\ UNCHANGED <<rounds, timerC, wpc, result>>
    /\ UNCHANGED lkVars
    /\ UNCHANGED lkFrame
    /\ UNCHANGED reVars
    /\ UNCHANGED extVars

\* waiter goroutine: wr.c.L.Lock()
WaiterLock(c) ==
    /\ wpc[c] = "start"
    /\ cL = NoHolder
    /\ cL' = Holder("waiter", c)
    /\ wpc' = [wpc EXCEPT ![c] = "locked"]
    /\ UNCHANGED <<rounds, cpc, timerC, sig, result, muxW, muxR, ipc, ins, rpc>>
    /\ UNCHANGED lkFrame
    /\ UNCHANGED reVars
    /\ UNCHANGED extVars

\* mutant: the waiter blocks with wr.c.L held
WaiterCondWait_KeepLock(c) ==
    /\ wpc[c] = "locked"
    /\ wpc' = [wpc EXCEPT ![c] = "wait"]
    /\ UNCHANGED <<rounds, cpc, timerC, sig, result>>
    /\ UNCHANGED lkVars
    /\ UNCHANGED lkFrame
    /\ UNCHANGED reVars
    /\ UNCHANGED extVars

\* waiter goroutine: wr.c.Wait() puts it on the notify list, unlocks wr.c.L
\* and suspends it
WaiterCondWait(c) ==
    /\ wpc[c] = "locked"
    /\ cL' = NoHolder
    /\ wpc' = [wpc EXCEPT ![c] = "wait"]
    /\ UNCHANGED <<rounds, cpc, timerC, sig, result, muxW, muxR, ipc, ins, rpc>>
    /\ UNCHANGED lkFrame
    /\ UNCHANGED reVars
    /\ UNCHANGED extVars

\* waiter goroutine, woken: Wait locks wr.c.L again before it returns
WaiterRelock(c) ==
    /\ wpc[c] = "woken"
    /\ cL = NoHolder
    /\ cL' = Holder("waiter", c)
    /\ wpc' = [wpc EXCEPT ![c] = "relocked"]
    /\ UNCHANGED <<rounds, cpc, timerC, sig, result, muxW, muxR, ipc, ins, rpc>>
    /\ UNCHANGED lkFrame
    /\ UNCHANGED reVars
    /\ UNCHANGED extVars

\* waiter goroutine: wr.c.L.Unlock(); sig <- struct{}{}
WaiterUnlockSend(c) ==
    /\ wpc[c] = "relocked"
    /\ sig[c] < 1
    /\ cL' = NoHolder
    /\ sig' = [sig EXCEPT ![c] = sig[c] + 1]
    /\ wpc' = [wpc EXCEPT ![c] = "done"]
    /\ UNCHANGED <<rounds, cpc, timerC, result, muxW, muxR, ipc, ins, rpc>>
    /\ UNCHANGED lkFrame
    /\ UNCHANGED reVars
    /\ UNCHANGED extVars

\* Len() is entered: return wr.rounds.Len(), with no lock taken
LenEnter ==
    /\ rpc["Len"] = "idle"
    /\ rpc' = [rpc EXCEPT !["Len"] = "reading"]
    /\ UNCHANGED <<rounds, cpc, timerC, sig, wpc, result, muxW, muxR, cL, ipc, ins>>
    /\ UNCHANGED lkFrame
    /\ UNCHANGED reVars
    /\ UNCHANGED extVars

\* Len() has read the list and returns
LenReturn ==
    /\ rpc["Len"] = "reading"
    /\ rpc' = [rpc EXCEPT !["Len"] = "idle"]
    /\ UNCHANGED <<rounds, cpc, timerC, sig, wpc, result, muxW, muxR, cL, ipc, ins>>
    /\ UNCHANGED lkFrame
    /\ UNCHANGED reVars
    /\ UNCHANGED extVars

\* GetSlice() is entered: wr.mux.RLock() returns
SliceRLock ==
    /\ rpc["GetSlice"] = "idle"
    /\ ~muxW
    /\ ipc # "want"
    /\ muxR' = muxR \cup {Holder("GetSlice", 0)}
    /\ rpc' = [rpc EXCEPT !["GetSlice"] = "reading"]
    /\ UNCHANGED <<rounds, cpc, timerC, sig, wpc, result, muxW, cL, ipc, ins>>
    /\ UNCHANGED lkFrame
    /\ UNCHANGED reVars
    /\ UNCHANGED extVars

\* GetSlice() has copied the list and returns (deferred wr.mux.RUnlock())
SliceReturn ==
    /\ rpc["GetSlice"] = "reading"
    /\ muxR' = muxR \ {Holder("GetSlice", 0)}
    /\ rpc' = [rpc EXCEPT !["GetSlice"] = "idle"]
    /\ UNCHANGED <<rounds, cpc, timerC, sig, wpc, result, muxW, cL, ipc, ins>>
    /\ UNCHANGED lkFrame
    /\ UNCHANGED reVars
    /\ UNCHANGED extVars

(***************************************************************************)
(* RoundEvents.                                                            *)
(*   apc:  "idle"     AddRoundEvent not called for this event              *)
(*         "spawned"  thisEvent made and the waiter goroutine started,     *)
(*                    before r.mux.Lock()                                  *)
(*         "done"     registered and returned                              *)
(*   ewpc: "idle"     not started                                          *)
(*         "select"   in the select                                        *)
(*         "callback" has called the callback, which has not returned      *)
(*         "done"     ended                                                *)
(*   rmpc: "idle" not started, "pending" before r.mux.Lock(), "done"       *)
(*   tpc:  "idle"  TriggerRoundEvent not called yet                        *)
(*         "range" holds r.mux.RLock(), in the range loop between sends    *)
(*         "send"  holds r.mux.RLock(), at event.signal <- ri              *)
(*         "done"  returned                                                *)
(* r.mux: Lock() is taken and released inside one step, so only the read   *)
(* locks are a state: the trigger threads in "range" and "send" hold one.  *)
(***************************************************************************)
\* the round infos given to TriggerRoundEvent
TriggerInfos == [ID : RoundIDs, State : EventStates]

\* no round info: the locals of a thread that is not in a call
NoRound == [ID |-> 0, State |-> 0]

\* mutant: the round of the timeout case has no ID
ZeroRound_NoID(rid) == [ID |-> 0, State |-> 0]

\* &pb.RoundInfo{ID: uint64(rid)}
ZeroRound(rid) == [ID |-> rid, State |-> 0]

\* the zero value of [states.NUM_STATES]map[*eventCallback]*eventCallback
NoBuckets == [s \in StateIdx |-> {}]

\* r.callbacks[rid]
Buckets(cbs, rid) == IF rid \in DOMAIN cbs THEN cbs[rid] ELSE NoBuckets

\* delete(r.callbacks, rid)
DeleteRound(cbs, rid) == [x \in (DOMAIN cbs) \ {rid} |-> cbs[x]]

\* for _, s := range e.states { delete(r.callbacks[rid][s], e) }
DeleteEvent(cbs, rid, e, states) ==
    IF rid \in DOMAIN cbs
    THEN [cbs EXCEPT ![rid] =
             [s \in StateIdx |-> IF s \in states THEN @[s] \ {e} ELSE @[s]]]
    ELSE cbs

\* mutant: the loop over e.states ends after its first state
removeEvent_FirstState(cbs, rid, e) ==
    LET first == CHOOSE s \in evStates[e] : \A x \in evStates[e] : s <= x
        cleared == DeleteEvent(cbs, rid, e, {first})
    IN  IF \A s \in StateIdx : Buckets(cleared, rid)[s] = {}
        THEN DeleteRound(cleared, rid)
        ELSE cleared

\* mutant: the round leaves the top-level map whatever its maps still hold
removeEvent_WholeRound(cbs, rid, e) ==
    DeleteRound(DeleteEvent(cbs, rid, e, evStates[e]), rid)

\* RoundEvents.remove: the event leaves the maps of all its states; the
\* round leaves the top-level map when no state has a callback left
removeEvent(cbs, rid, e) ==
    LET cleared == DeleteEvent(cbs, rid, e, evStates[e])
    IN  IF \A s \in StateIdx : Buckets(cleared, rid)[s] = {}
        THEN DeleteRound(cleared, rid)
        ELSE cleared

\* remove applied to every element of a set of events
RECURSIVE removeAll(_, _, _)
removeAll(cbs, rid, es) ==
    IF es = {} THEN cbs
    ELSE LET e == CHOOSE x \in es : TRUE
         IN  removeAll(removeEvent(cbs, rid, e), rid, es \ {e})

\* AddRoundEvent, lines 79-91: the round's maps are made when the round is
\* not in r.callbacks, and the event is put into the map of each valid state
registerEvent(cbs, rid, e, states) ==
    LET withRound == IF rid \in DOMAIN cbs THEN cbs
                     ELSE [x \in (DOMAIN cbs) \cup {rid} |->
                              IF x = rid THEN NoBuckets ELSE cbs[x]]
    IN  [withRound EXCEPT ![rid] =
            [s \in StateIdx |-> IF s \in states THEN @[s] \cup {e} ELSE @[s]]]

\* r.mux.Lock() succeeds: nobody holds a read lock
CanLock == \A t \in Triggers : tpc[t] \in {"idle", "done"}

\* mutant: the event is put into the registry before the waiter is started
AddSpawn_Registered(e, rid, validStates) ==
    /\ apc[e] = "idle"
    /\ \A x \in Events : x < e => apc[x] # "idle"
    /\ CanLock
    /\ callbacks' = registerEvent(callbacks, rid, e, validStates)
    /\ apc' = [apc EXCEPT ![e] = "spawned"]
    /\ evRid' = [evRid EXCEPT ![e] = rid]
    /\ evStates' = [evStates EXCEPT ![e] = validStates]
    /\ ewpc' = [ewpc EXCEPT ![e] = "select"]
    /\ UNCHANGED <<signal, etimer, rmpc, cb,
                   tpc, tri, tcur, tevents, tlate, delivered>>
    /\ UNCHANGED wrVars
    /\ UNCHANGED extVars

\* AddRoundEvent(rid, callback, timeout, validStates...), up to the start of
\* the waiter goroutine; the events are numbered in the order of the calls
AddSpawn(e, rid, validStates) ==
    /\ apc[e] = "idle"
    /\ \A x \in Events : x < e => apc[x] # "idle"
    /\ apc' = [apc EXCEPT ![e] = "spawned"]
    /\ evRid' = [evRid EXCEPT ![e] = rid]
    /\ evStates' = [evStates EXCEPT ![e] = validStates]
    /\ ewpc' = [ewpc EXCEPT ![e] = "select"]
    /\ UNCHANGED <<callbacks, signal, etimer, rmpc, cb,
                   tpc, tri, tcur, tevents, tlate, delivered>>
    /\ UNCHANGED wrVars
    /\ UNCHANGED extVars

\* AddRoundEvent, lines 78-92, under r.mux.Lock()
AddRegister(e) ==
    /\ apc[e] = "spawned"
    /\ CanLock
    /\ callbacks' = registerEvent(callbacks, evRid[e], e, evStates[e])
    /\ apc' = [apc EXCEPT ![e] = "done"]
    /\ UNCHANGED <<evRid, evStates, signal, ewpc, etimer, rmpc, cb,
                   tpc, tri, tcur, tevents, tlate, delivered>>
    /\ UNCHANGED wrVars
    /\ UNCHANGED extVars

\* the runtime puts a value into the channel of time.After(timeout)
EventTimerFire(e) ==
    /\ ewpc[e] = "select"
    /\ ~etimer[e]
    /\ etimer' = [etimer EXCEPT ![e] = TRUE]
    /\ UNCHANGED <<callbacks, evRid, evStates, signal, apc, ewpc, rmpc, cb,
                   tpc, tri, tcur, tevents, tlate, delivered>>
    /\ UNCHANGED wrVars
    /\ UNCHANGED extVars

\* one call of the callback
Invocation(ri, timedOut) == [ri |-> ri, timedOut |-> timedOut]

\* mutant: the select is in a loop that the timeout case does not leave
WaiterTimeout_Loop(e) ==
    /\ ewpc[e] = "select"
    /\ etimer[e]
    /\ Len(cb[e]) < 2
    /\ rmpc' = [rmpc EXCEPT ![e] = "pending"]
    /\ cb' = [cb EXCEPT ![e] = Append(@, Invocation(ZeroRound(evRid[e]), TRUE))]
    /\ UNCHANGED <<callbacks, evRid, evStates, signal, apc, ewpc, etimer,
                   tpc, tri, tcur, tevents, tlate, delivered>>
    /\ UNCHANGED wrVars
    /\ UNCHANGED extVars

\* waiter goroutine, case <-time.After(timeout):
\* go r.Remove(rid, thisEvent); callback(ri, true)
WaiterTimeout(e) ==
    /\ ewpc[e] = "select"
    /\ etimer[e]
    /\ rmpc' = [rmpc EXCEPT ![e] = "pending"]
    /\ cb' = [cb EXCEPT ![e] = Append(@, Invocation(ZeroRound(evRid[e]), TRUE))]
    /\ ewpc' = [ewpc EXCEPT ![e] = "callback"]
    /\ UNCHANGED <<callbacks, evRid, evStates, signal, apc, etimer,
                   tpc, tri, tcur, tevents, tlate, delivered>>
    /\ UNCHANGED wrVars
    /\ UNCHANGED extVars

\* waiter goroutine, case ri = <-thisEvent.signal: callback(ri, false)
WaiterSignal(e) ==
    /\ ewpc[e] = "select"
    /\ signal[e] # <<>>
    /\ signal' = [signal EXCEPT ![e] = Tail(@)]
    /\ cb' = [cb EXCEPT ![e] = Append(@, Invocation(Head(signal[e]), FALSE))]
    /\ ewpc' = [ewpc EXCEPT ![e] = "callback"]
    /\ UNCHANGED <<callbacks, evRid, evStates, apc, etimer, rmpc,
                   tpc, tri, tcur, tevents, tlate, delivered>>
    /\ UNCHANGED wrVars
    /\ UNCHANGED extVars

\* the callback returns and the waiter goroutine ends; a callback may also
\* never return
CallbackReturn(e) ==
    /\ ewpc[e] = "callback"
    /\ ewpc' = [ewpc EXCEPT ![e] = "done"]
    /\ UNCHANGED <<callbacks, evRid, evStates, signal, apc, etimer, rmpc, cb,
                   tpc, tri, tcur, tevents, tlate, delivered>>
    /\ UNCHANGED wrVars
    /\ UNCHANGED extVars

\* RoundEvents.Remove(rid, e), run by the goroutine of the timeout case
RemoveRun(e) ==
    /\ rmpc[e] = "pending"
    /\ CanLock
    /\ callbacks' = removeEvent(callbacks, evRid[e], e)
    /\ rmpc' = [rmpc EXCEPT ![e] = "done"]
    /\ UNCHANGED <<evRid, evStates, signal, apc, ewpc, etimer, cb,
                   tpc, tri, tcur, tevents, tlate, delivered>>
    /\ UNCHANGED wrVars
    /\ UNCHANGED extVars

\* TriggerRoundEvent(ri), lines 96-104: r.mux.RLock(); a round without
\* callbacks, or a state without callbacks, ends the call at once; the
\* threads are numbered in the order of their calls
TriggerBegin(t, ri) ==
    /\ tpc[t] = "idle"
    /\ \A x \in Triggers : x < t => tpc[x] # "idle"
    /\ IF ri.ID \in DOMAIN callbacks /\ callbacks[ri.ID][ri.State] # {}
       THEN /\ tpc' = [tpc EXCEPT ![t] = "range"]
            /\ tlate' = [tlate EXCEPT ![t] = delivered]
            /\ tri' = [tri EXCEPT ![t] = ri]
       ELSE /\ tpc' = [tpc EXCEPT ![t] = "done"]
            /\ UNCHANGED <<tlate, tri>>
    /\ UNCHANGED <<callbacks, evRid, evStates, signal, apc, ewpc, etimer, rmpc, cb,
                   tcur, tevents, delivered>>
    /\ UNCHANGED wrVars
    /\ UNCHANGED extVars

\* mutant: the maps of all states of the round instead of callbacks[ri.State]
TriggerMap_AnyState(t) ==
    UNION {Buckets(callbacks, tri[t].ID)[s] : s \in StateIdx}

\* the map the range loop of the call walks: callbacks[ri.State]
TriggerMap(t) == Buckets(callbacks, tri[t].ID)[tri[t].State]

\* the range loop yields an event of the map it has not yielded before
TriggerRange(t, e) ==
    /\ tpc[t] = "range"
    /\ e \in TriggerMap(t) \ tevents[t]
    /\ tcur' = [tcur EXCEPT ![t] = e]
    /\ tpc' = [tpc EXCEPT ![t] = "send"]
    /\ UNCHANGED <<callbacks, evRid, evStates, signal, apc, ewpc, etimer, rmpc, cb,
                   tri, tevents, tlate, delivered>>
    /\ UNCHANGED wrVars
    /\ UNCHANGED extVars

\* event.signal <- ri; events = append(events, event): the send waits while
\* the channel is full
TriggerSend(t) ==
    /\ tpc[t] = "send"
    /\ Len(signal[tcur[t]]) < 1
    /\ signal' = [signal EXCEPT ![tcur[t]] = Append(@, tri[t])]
    /\ tevents' = [tevents EXCEPT ![t] = @ \cup {tcur[t]}]
    /\ tcur' = [tcur EXCEPT ![t] = 0]
    /\ tpc' = [tpc EXCEPT ![t] = "range"]
    /\ UNCHANGED <<callbacks, evRid, evStates, apc, ewpc, etimer, rmpc, cb,
                   tri, tlate, delivered>>
    /\ UNCHANGED wrVars
    /\ UNCHANGED extVars

\* mutant: the call returns only when the callbacks of the events it sent to
\* have returned
TriggerFinish_AwaitCallbacks(t) ==
    /\ tpc[t] = "range"
    /\ TriggerMap(t) \ tevents[t] = {}
    /\ \A e \in tevents[t] : ewpc[e] = "done"
    /\ callbacks' = removeAll(callbacks, tri[t].ID, tevents[t])
    /\ delivered' = delivered \cup tevents[t]
    /\ tpc' = [tpc EXCEPT ![t] = "done"]
    /\ tri' = [tri EXCEPT ![t] = NoRound]
    /\ tevents' = [tevents EXCEPT ![t] = {}]
    /\ tlate' = [tlate EXCEPT ![t] = {}]
    /\ UNCHANGED <<evRid, evStates, signal, apc, ewpc, etimer, rmpc, cb, tcur>>
    /\ UNCHANGED wrVars
    /\ UNCHANGED extVars

\* the range loop has ended: r.remove for every event sent to, r.mux.RUnlock()
TriggerFinish(t) ==
    /\ tpc[t] = "range"
    /\ TriggerMap(t) \ tevents[t] = {}
    /\ callbacks' = removeAll(callbacks, tri[t].ID, tevents[t])
    /\ delivered' = delivered \cup tevents[t]
    /\ tpc' = [tpc EXCEPT ![t] = "done"]
    /\ tri' = [tri EXCEPT ![t] = NoRound]
    /\ tevents' = [tevents EXCEPT ![t] = {}]
    /\ tlate' = [tlate EXCEPT ![t] = {}]
    /\ UNCHANGED <<evRid, evStates, signal, apc, ewpc, etimer, rmpc, cb, tcur>>
    /\ UNCHANGED wrVars
    /\ UNCHANGED extVars

(***************************************************************************)
(* Malformed input: a round whose Timestamps slice has no REALTIME entry,  *)
(* and a round whose State is not a known state.                           *)
(***************************************************************************)
\* getTime of a round whose Timestamps has no element at current.REALTIME:
\* the index expression is out of range
NoTimestamp == -1

\* QUEUED rounds that carry no realtime timestamp
BadRoundInfos == [ID : RoundIDs, State : {QUEUED}, Timestamp : {NoTimestamp}]

\* rounds whose State is the first value after the known states
BadTriggerInfos == [ID : RoundIDs, State : {NUM_STATES}]

\* the walk of Insert from the back evaluates getTime(newRound) and
\* getTime(e) element by element until it finds a smaller time: TRUE when
\* one of the evaluations indexes Timestamps out of range
RECURSIVE ScanPanics(_, _, _)
ScanPanics(s, newRound, i) ==
    IF i = 0 THEN FALSE
    ELSE IF getTime(newRound) = NoTimestamp \/ getTime(s[i]) = NoTimestamp THEN TRUE
    ELSE IF getTime(newRound) > getTime(s[i]) THEN FALSE
    ELSE ScanPanics(s, newRound, i - 1)

\* Insert(newRound) with any round: the call panics in getTime (the deferred
\* wr.mux.Unlock() runs, the list is as it was), or it is the Insert above
InsertBad ==
    \E newRound \in RoundInfos \cup BadRoundInfos :
        /\ failed = "none"
        /\ newRound.State = QUEUED => Len(rounds) < MaxWaitLen
        /\ IF newRound.State = QUEUED /\ ScanPanics(rounds, newRound, Len(rounds))
           THEN /\ failed' = "Insert"
                /\ UNCHANGED <<rounds, cpc, timerC, sig, wpc, result, sawEmpty,
                               sawNonEmpty, dueRound, emptyWakeups, gpc, slice>>
                /\ UNCHANGED lkVars
                /\ UNCHANGED reVars
                /\ UNCHANGED extVars
           ELSE Insert(newRound)
        /\ Unobserved

\* TriggerRoundEvent(ri) with a State that is no index of the array of maps:
\* a round without callbacks ends the call (lines 98-102); else
\* callbacks[ri.State] is out of range and the call panics with the read
\* lock held, line 116 never reached
TriggerBad(t, ri) ==
    /\ failed = "none"
    /\ tpc[t] = "idle"
    /\ \A x \in Triggers : x < t => tpc[x] # "idle"
    /\ IF ri.ID \in DOMAIN callbacks
       THEN /\ tpc' = [tpc EXCEPT ![t] = "panic"]
            /\ failed' = "TriggerRoundEvent"
       ELSE /\ tpc' = [tpc EXCEPT ![t] = "done"]
            /\ UNCHANGED failed
    /\ UNCHANGED <<callbacks, evRid, evStates, signal, apc, ewpc, etimer, rmpc, cb,
                   tri, tcur, tevents, tlate, delivered>>
    /\ UNCHANGED <<rounds, lastState, lastOp, cpc, timerC, sig, wpc, result,
                   sawEmpty, sawNonEmpty, dueRound, emptyWakeups,
                   gpc, slice, inserted, once>>
    /\ UNCHANGED lkVars
    /\ UNCHANGED extVars

(***************************************************************************)
(* connect.Host: send and stream under the read lock, connect, Disconnect  *)
(* and authenticate under the write lock of Host.mux.                      *)
(*   spc: "idle"    not in a call                                          *)
(*        "locked"  holds h.mux.RLock(), before h.isAlive()                *)
(*        "running" holds h.mux.RLock(), f(h.connection) has not returned  *)
(*   kpc: "idle", "check" (holds h.mux.Lock(), before h.isAlive()),        *)
(*        "loop" (at the loop condition of connectHelper), "dial" (at      *)
(*        grpc.DialContext), "verify" (at the check after the loop)        *)
(*   dpc: "idle", "locked", "closed" (after h.disconnect())                *)
(*   upc: "idle", "locked", "handshaken" (after handshake(h))              *)
(***************************************************************************)
Senders == 1..NumSenders

\* the *grpc.ClientConn objects: the one Host.connection points to and
\* those the running send functions were given
Conns == 1..(NumSenders + 1)

\* connectivity.State
ConnStates == {"Idle", "Connecting", "Ready", "TransientFailure", "Shutdown"}

\* mutant: a connection in TransientFailure counts as alive
isAlive_NotShutdown(conn, st) ==
    /\ conn # 0
    /\ st[conn] \in {"Idle", "Connecting", "Ready", "TransientFailure"}

\* Host.isAlive
isAlive(conn, st) ==
    /\ conn # 0
    /\ st[conn] \in {"Idle", "Connecting", "Ready"}

\* Host.disconnect: h.connection.Close() when there is a connection
disconnect(conn, st) ==
    IF conn # 0 THEN [st EXCEPT ![conn] = "Shutdown"] ELSE st

\* mutant: the timeout is not capped
backoffTime_NoCap(n) == 2 * ((n \div 16) + 1)

\* connectHelper, lines 219-222
backoffTime(n) ==
    LET t == 2 * ((n \div 16) + 1)
    IN  IF t > MaxBackoff THEN MaxBackoff ELSE t

\* ConnectionContext(seconds): the timeout of the context it returns, in
\* milliseconds
ConnectionContext(seconds) == seconds * Second

\* the other variables of the model
notHost == <<wrVars, reVars, circVars, ndfVars, regVars>>

\* the variables of the connect call
connectVars == <<kpc, numRetries, dials, backoffs, kres>>

\* the variables of the send and stream calls
sendVars == <<spc, skind, sconn, stoken, sres>>

\* mutant: h.mux.Lock() does not wait for the readers
CanLockHost_IgnoreReaders == hmaxRetries # 0 /\ hmuxW = "none"

\* h.mux.Lock() succeeds: no writer and no reader holds the lock
CanLockHost == hmaxRetries # 0 /\ hmuxW = "none" /\ hreaders = {}

\* NewHost(id, address, cert, disableTimeout, enableAuth)
NewHostCall(disableTimeout) ==
    /\ hmaxRetries = 0
    /\ hmaxRetries' = IF disableTimeout THEN MaxInt32 ELSE DefaultMaxRetries
    /\ UNCHANGED <<hconn, cstate, htoken, hmuxW, hreaders, dpc, upc>>
    /\ UNCHANGED <<sendVars, connectVars>>
    /\ UNCHANGED notHost

\* the network changes the state of a connection that is not closed
ConnChange(c, st) ==
    /\ cstate[c] \in ConnStates \ {"Shutdown"}
    /\ st \in ConnStates \ {"Shutdown", cstate[c]}
    /\ cstate' = [cstate EXCEPT ![c] = st]
    /\ UNCHANGED <<hmaxRetries, hconn, htoken, hmuxW, hreaders, dpc, upc>>
    /\ UNCHANGED <<sendVars, connectVars>>
    /\ UNCHANGED notHost

\* Host.send(f) or Host.stream(f): h.mux.RLock()
SendRLock(s, kind) ==
    /\ hmaxRetries # 0
    /\ spc[s] = "idle"
    /\ hmuxW = "none"
    /\ hreaders' = hreaders \cup {s}
    /\ spc' = [spc EXCEPT ![s] = "locked"]
    /\ skind' = [skind EXCEPT ![s] = kind]
    /\ sres' = [sres EXCEPT ![s] = "none"]
    /\ UNCHANGED <<hmaxRetries, hconn, cstate, htoken, hmuxW, dpc, upc>>
    /\ UNCHANGED <<sconn, stoken, connectVars>>
    /\ UNCHANGED notHost

\* if !h.isAlive() { return nil, errors.New(...) }, and else the call
\* f(h.connection)
SendCheck(s) ==
    /\ spc[s] = "locked"
    /\ IF isAlive(hconn, cstate)
       THEN /\ spc' = [spc EXCEPT ![s] = "running"]
            /\ sconn' = [sconn EXCEPT ![s] = hconn]
            /\ stoken' = [stoken EXCEPT ![s] = htoken]
            /\ UNCHANGED <<sres, hreaders>>
       ELSE /\ spc' = [spc EXCEPT ![s] = "idle"]
            /\ sres' = [sres EXCEPT ![s] = "notAlive"]
            /\ hreaders' = hreaders \ {s}
            /\ UNCHANGED <<sconn, stoken>>
    /\ UNCHANGED <<hmaxRetries, hconn, cstate, htoken, hmuxW, dpc, upc, skind>>
    /\ UNCHANGED connectVars
    /\ UNCHANGED notHost

\* f returns, send returns what f returned; the deferred h.mux.RUnlock()
SendReturn(s) ==
    /\ spc[s] = "running"
    /\ spc' = [spc EXCEPT ![s] = "idle"]
    /\ sres' = [sres EXCEPT ![s] = "returned"]
    /\ sconn' = [sconn EXCEPT ![s] = 0]
    /\ stoken' = [stoken EXCEPT ![s] = "nil"]
    /\ hreaders' = hreaders \ {s}
    /\ UNCHANGED <<hmaxRetries, hconn, cstate, htoken, hmuxW, dpc, upc, skind>>
    /\ UNCHANGED connectVars
    /\ UNCHANGED notHost

\* Host.connect: h.mux.Lock()
ConnectLock ==
    /\ kpc = "idle"
    /\ CanLockHost
    /\ hmuxW' = "connect"
    /\ kpc' = "check"
    /\ numRetries' = 0
    /\ dials' = 0
    /\ backoffs' = <<0, 0>>
    /\ kres' = "none"
    /\ UNCHANGED <<hmaxRetries, hconn, cstate, htoken, hreaders, dpc, upc>>
    /\ UNCHANGED sendVars
    /\ UNCHANGED notHost

\* connect, lines 132-137: an alive connection ends the call; else
\* connectHelper begins with h.disconnect()
ConnectCheck ==
    /\ kpc = "check"
    /\ IF isAlive(hconn, cstate)
       THEN /\ kres' = "nil"
            /\ kpc' = "idle"
            /\ hmuxW' = "none"
            /\ UNCHANGED cstate
       ELSE /\ cstate' = disconnect(hconn, cstate)
            /\ kpc' = "loop"
            /\ UNCHANGED <<kres, hmuxW>>
    /\ UNCHANGED <<hmaxRetries, hconn, htoken, hreaders, dpc, upc>>
    /\ UNCHANGED <<numRetries, dials, backoffs>>
    /\ UNCHANGED sendVars
    /\ UNCHANGED notHost

\* mutant: the loop condition does not look at the connection
LoopCond_CountOnly ==
    /\ kpc = "loop"
    /\ IF numRetries < hmaxRetries
       THEN /\ kpc' = "dial"
            /\ backoffs' = <<backoffs[2], ConnectionContext(backoffTime(numRetries))>>
       ELSE /\ kpc' = "verify"
            /\ UNCHANGED backoffs
    /\ UNCHANGED <<hmaxRetries, hconn, cstate, htoken, hmuxW, hreaders, dpc, upc>>
    /\ UNCHANGED <<numRetries, dials, kres>>
    /\ UNCHANGED sendVars
    /\ UNCHANGED notHost

\* connectHelper, lines 212-223: the loop condition, and in the loop the
\* timeout of the attempt
LoopCond ==
    /\ kpc = "loop"
    /\ IF numRetries < hmaxRetries /\ ~isAlive(hconn, cstate)
       THEN /\ kpc' = "dial"
            /\ backoffs' = <<backoffs[2], ConnectionContext(backoffTime(numRetries))>>
       ELSE /\ kpc' = "verify"
            /\ UNCHANGED backoffs
    /\ UNCHANGED <<hmaxRetries, hconn, cstate, htoken, hmuxW, hreaders, dpc, upc>>
    /\ UNCHANGED <<numRetries, dials, kres>>
    /\ UNCHANGED sendVars
    /\ UNCHANGED notHost

\* the connections the running send functions hold
HeldConns == {sconn[s] : s \in {x \in Senders : spc[x] = "running"}}

\* a connection object nobody holds
FreshConn == CHOOSE c \in Conns \ HeldConns : \A d \in Conns \ HeldConns : c <= d

\* h.connection, err = grpc.DialContext(...), lines 226-232, and
\* numRetries++: the dial gives a connection that is Ready (grpc.WithBlock),
\* or nil and an error; the attempts of a call are followed up to a cap
Dial(ok, cap) ==
    /\ kpc = "dial"
    /\ numRetries < cap
    /\ hconn' = IF ok THEN FreshConn ELSE 0
    /\ cstate' = [c \in Conns |->
                     IF ok /\ c = FreshConn THEN "Ready"
                     ELSE IF c \in HeldConns THEN cstate[c]
                     ELSE "none"]
    /\ numRetries' = numRetries + 1
    /\ dials' = dials + 1
    /\ kpc' = "loop"
    /\ UNCHANGED <<hmaxRetries, htoken, hmuxW, hreaders, dpc, upc>>
    /\ UNCHANGED <<backoffs, kres>>
    /\ UNCHANGED sendVars
    /\ UNCHANGED notHost

\* connectHelper, lines 236-243, and the return of connect with the
\* deferred h.mux.Unlock()
Verify ==
    /\ kpc = "verify"
    /\ kres' = IF isAlive(hconn, cstate) THEN "nil" ELSE "error"
    /\ kpc' = "idle"
    /\ hmuxW' = "none"
    /\ UNCHANGED <<hmaxRetries, hconn, cstate, htoken, hreaders, dpc, upc>>
    /\ UNCHANGED <<numRetries, dials, backoffs>>
    /\ UNCHANGED sendVars
    /\ UNCHANGED notHost

\* Host.Disconnect: h.mux.Lock()
DisconnectLock ==
    /\ dpc = "idle"
    /\ CanLockHost
    /\ hmuxW' = "Disconnect"
    /\ dpc' = "locked"
    /\ UNCHANGED <<hmaxRetries, hconn, cstate, htoken, hreaders, upc>>
    /\ UNCHANGED <<sendVars, connectVars>>
    /\ UNCHANGED notHost

\* h.disconnect()
DisconnectClose ==
    /\ dpc = "locked"
    /\ cstate' = disconnect(hconn, cstate)
    /\ dpc' = "closed"
    /\ UNCHANGED <<hmaxRetries, hconn, htoken, hmuxW, hreaders, upc>>
    /\ UNCHANGED <<sendVars, connectVars>>
    /\ UNCHANGED notHost

\* h.token = nil, and the deferred h.mux.Unlock()
DisconnectReturn ==
    /\ dpc = "closed"
    /\ htoken' = "nil"
    /\ hmuxW' = "none"
    /\ dpc' = "idle"
    /\ UNCHANGED <<hmaxRetries, hconn, cstate, hreaders, upc>>
    /\ UNCHANGED <<sendVars, connectVars>>
    /\ UNCHANGED notHost

\* Host.authenticate(handshake): h.mux.Lock()
AuthLock ==
    /\ upc = "idle"
    /\ CanLockHost
    /\ hmuxW' = "authenticate"
    /\ upc' = "locked"
    /\ UNCHANGED <<hmaxRetries, hconn, cstate, htoken, hreaders, dpc>>
    /\ UNCHANGED <<sendVars, connectVars>>
    /\ UNCHANGED notHost

\* handshake(h): the handshake stores the token it was given, or fails
AuthHandshake(ok) ==
    /\ upc = "locked"
    /\ htoken' = IF ok THEN "token" ELSE htoken
    /\ upc' = "handshaken"
    /\ UNCHANGED <<hmaxRetries, hconn, cstate, hmuxW, hreaders, dpc>>
    /\ UNCHANGED <<sendVars, connectVars>>
    /\ UNCHANGED notHost

\* authenticate returns: the deferred h.mux.Unlock()
AuthReturn ==
    /\ upc = "handshaken"
    /\ hmuxW' = "none"
    /\ upc' = "idle"
    /\ UNCHANGED <<hmaxRetries, hconn, cstate, htoken, hreaders, dpc>>
    /\ UNCHANGED <<sendVars, connectVars>>
    /\ UNCHANGED notHost

\* no Host yet
InitHost ==
    /\ hmaxRetries = 0
    /\ hconn = 0
    /\ cstate = [c \in Conns |-> "none"]
    /\ htoken = "nil"
    /\ hmuxW = "none"
    /\ hreaders = {}
    /\ spc = [s \in Senders |-> "idle"]
    /\ skind = [s \in Senders |-> "send"]
    /\ sconn = [s \in Senders |-> 0]
    /\ stoken = [s \in Senders |-> "nil"]
    /\ sres = [s \in Senders |-> "none"]
    /\ kpc = "idle"
    /\ numRetries = 0
    /\ dials = 0
    /\ backoffs = <<0, 0>>
    /\ kres = "none"
    /\ dpc = "idle"
    /\ upc = "idle"

(***************************************************************************)
(* connect.Circuit. A []*id.Node is a window on a backing array: the       *)
(* array (its index in heap), the offset of the window, its length and     *)
(* its capacity. A node is its id; an unused element of an array is 0.     *)
(***************************************************************************)
Nodes == 1..MaxNodes

\* the lists New is given: at least one node, no node twice
NodeLists ==
    {l \in UNION {[1..n -> Nodes] : n \in 1..MaxNodes} :
        \A i, j \in 1..Len(l) : i # j => l[i] # l[j]}

\* the nil slice
NilSlice == [arr |-> 0, off |-> 0, len |-> 0, cap |-> 0]

\* list[i], i counted from 0
At(h, sl, i) == h[sl.arr][sl.off + i + 1]

\* the elements of a slice as a sequence
Elems(h, sl) == [i \in 1..sl.len |-> At(h, sl, i - 1)]

\* list[lo:hi]
Reslice(sl, lo, hi) ==
    [arr |-> sl.arr, off |-> sl.off + lo, len |-> hi - lo, cap |-> sl.cap - lo]

\* the capacity append gives a slice that has to grow to need elements
growCap(oldCap, need) ==
    IF oldCap = 0 THEN need
    ELSE IF need > 2 * oldCap THEN need
    ELSE 2 * oldCap

\* append(sl, v): within the capacity the element is written into the
\* backing array, else the elements move to a new array
appendNode(h, sl, v) ==
    IF sl.len < sl.cap
    THEN [heap |-> [h EXCEPT ![sl.arr][sl.off + sl.len + 1] = v],
          slice |-> [sl EXCEPT !.len = sl.len + 1]]
    ELSE LET newCap == growCap(sl.cap, sl.len + 1)
             arr == [i \in 1..newCap |->
                        IF i <= sl.len THEN At(h, sl, i - 1)
                        ELSE IF i = sl.len + 1 THEN v
                        ELSE 0]
         IN  [heap |-> Append(h, arr),
              slice |-> [arr |-> Len(h) + 1, off |-> 0,
                         len |-> sl.len + 1, cap |-> newCap]]

\* mutant: the loop of shiftLeft runs once whatever the rotation is
RECURSIVE shiftLoop_Once(_, _, _, _)
shiftLoop_Once(h, list, i, rotation) ==
    IF i >= rotation \/ i >= 1 THEN [heap |-> h, slice |-> list]
    ELSE LET size == list.len
             app == appendNode(h, Reslice(list, 1, size), At(h, list, 0))
         IN  shiftLoop_Once(app.heap, app.slice, i + 1, rotation)

\* shiftLeft, lines 159-163: newList = list[1:size];
\* newList = append(newList, list[0]); list = newList
RECURSIVE shiftLoop(_, _, _, _)
shiftLoop(h, list, i, rotation) ==
    IF i >= rotation THEN [heap |-> h, slice |-> list]
    ELSE LET size == list.len
             app == appendNode(h, Reslice(list, 1, size), At(h, list, 0))
         IN  shiftLoop(app.heap, app.slice, i + 1, rotation)

\* shiftLeft(list, rotation)
shiftLeft(h, list, rotation) == shiftLoop(h, list, 0, rotation)

\* New, lines 37-45: the nodes are appended one by one to an empty slice
\* and their indexes are put into nodeIndexes
RECURSIVE NewLoop(_, _, _, _, _)
NewLoop(h, list, index, nodes, nodeIndexes) ==
    IF index > Len(list)
    THEN [heap |-> h, c |-> [nodes |-> nodes, nodeIndexes |-> nodeIndexes]]
    ELSE LET app == appendNode(h, nodes, list[index])
         IN  NewLoop(app.heap, list, index + 1, app.slice,
                     [n \in (DOMAIN nodeIndexes) \cup {list[index]} |->
                         IF n = list[index] THEN index - 1 ELSE nodeIndexes[n]])

\* New(list) for a list of different nodes
New(h, list) == NewLoop(h, list, 1, NilSlice, [n \in {} |-> 0])

\* Circuit.GetNodeLocation
GetNodeLocation(c, node) ==
    IF node \in DOMAIN c.nodeIndexes THEN c.nodeIndexes[node] ELSE -1

\* mutant: the node after the last node is the last node
GetNextNode_NoWrap(h, c, from) ==
    LET loc == GetNodeLocation(c, from)
    IN  At(h, c.nodes, IF loc + 1 >= c.nodes.len THEN loc ELSE loc + 1)

\* Circuit.GetNextNode for a node of the circuit
GetNextNode(h, c, from) ==
    LET loc == GetNodeLocation(c, from)
    IN  At(h, c.nodes, (loc + 1) % c.nodes.len)

\* Circuit.GetPrevNode for a node of the circuit
GetPrevNode(h, c, from) ==
    LET loc == GetNodeLocation(c, from)
        prevLoc == IF loc = 0 THEN c.nodes.len - 1 ELSE loc - 1
    IN  At(h, c.nodes, prevLoc)

\* Circuit.GetOrdering, lines 130-132: circuits[i] = New(shiftLeft(list, i))
RECURSIVE OrderingLoop(_, _, _, _)
OrderingLoop(h, list, i, circuits) ==
    IF i >= list.len THEN [heap |-> h, circuits |-> circuits]
    ELSE LET sh == shiftLeft(h, list, i)
             nw == New(sh.heap, Elems(sh.heap, sh.slice))
         IN  OrderingLoop(nw.heap, list, i + 1, Append(circuits, nw.c))

\* Circuit.GetOrdering
GetOrdering(h, c) == OrderingLoop(h, c.nodes, 0, <<>>)

\* no circuit
NoCircuit == [nodes |-> NilSlice, nodeIndexes |-> [n \in {} |-> 0]]

\* no call on the circuit yet
NoCall == [op |-> "none", from |-> 0, node |-> 0, circuits |-> <<>>]

\* the other variables of the model
notCirc == <<wrVars, reVars, hostVars, ndfVars, regVars>>

\* c := New(list); the arrays the slice has grown out of are dropped
NewCall(list) ==
    /\ circ = NoCircuit
    /\ LET nw == New(<<>>, list)
       IN  /\ heap' = <<nw.heap[nw.c.nodes.arr]>>
           /\ circ' = [nw.c EXCEPT !.nodes.arr = 1]
    /\ corig' = list
    /\ cres' = NoCall
    /\ UNCHANGED notCirc

\* c.GetNextNode(from) for a node of the circuit
GetNextNodeCall(from) ==
    /\ circ # NoCircuit
    /\ GetNodeLocation(circ, from) # -1
    /\ cres' = [NoCall EXCEPT !.op = "GetNextNode", !.from = from,
                              !.node = GetNextNode(heap, circ, from)]
    /\ UNCHANGED <<heap, circ, corig>>
    /\ UNCHANGED notCirc

\* c.GetPrevNode(from) for a node of the circuit
GetPrevNodeCall(from) ==
    /\ circ # NoCircuit
    /\ GetNodeLocation(circ, from) # -1
    /\ cres' = [NoCall EXCEPT !.op = "GetPrevNode", !.from = from,
                              !.node = GetPrevNode(heap, circ, from)]
    /\ UNCHANGED <<heap, circ, corig>>
    /\ UNCHANGED notCirc

\* c.GetOrdering(): the circuits it returns, as their node lists; the
\* arrays made for them are dropped from the heap, the writes into the
\* array of c.nodes stay
GetOrderingCall ==
    /\ circ # NoCircuit
    /\ LET r == GetOrdering(heap, circ)
       IN  /\ cres' = [NoCall EXCEPT !.op = "GetOrdering",
                          !.circuits = [i \in 1..Len(r.circuits) |->
                                           Elems(r.heap, r.circuits[i].nodes)]]
           /\ heap' = <<r.heap[1]>>
    /\ UNCHANGED <<circ, corig>>
    /\ UNCHANGED notCirc

\* no Circuit yet
InitCirc ==
    /\ heap = <<>>
    /\ circ = NoCircuit
    /\ corig = <<>>
    /\ cres = NoCall

(***************************************************************************)
(* dataStructures.Ndf and client.Comms.RetrieveNdf. The text of an NDF is  *)
(* what DecodeNDF makes of it: well formed or not, the definition it       *)
(* holds, and whether Marshal of that definition succeeds.                 *)
(***************************************************************************)
DefIDs == 1..MaxDefs

\* *ndf.NetworkDefinition
NdfDefs == [id : DefIDs, marshals : BOOLEAN]

\* the nil *ndf.NetworkDefinition
NilDef == [id |-> 0, marshals |-> FALSE]

\* the []byte of pb.NDF.Ndf that is not nil
NdfTexts == [wellFormed : BOOLEAN, id : DefIDs, marshals : BOOLEAN]

\* the nil []byte as pb.NDF.Ndf
NilText == [wellFormed |-> FALSE, id |-> 0, marshals |-> FALSE]

\* *pb.NDF
NdfMsgs == [Ndf : NdfTexts]

\* the nil *pb.NDF
NilMsg == [Ndf |-> [wellFormed |-> FALSE, id |-> -1, marshals |-> FALSE]]

\* the nil []byte as a hash
NilHash == <<>>

\* ndf.DecodeNDF
DecodeNDF(text) ==
    IF text.wellFormed
    THEN [def |-> [id |-> text.id, marshals |-> text.marshals], err |-> FALSE]
    ELSE [def |-> NilDef, err |-> TRUE]

\* NetworkDefinition.Marshal
Marshal(def) ==
    IF def.marshals
    THEN [bytes |-> <<"ndf", def.id>>, err |-> FALSE]
    ELSE [bytes |-> <<>>, err |-> TRUE]

\* sha256 of a byte string, taken to be free of collisions
Sha256(bytes) == <<"sha256">> \o bytes

\* generateHash
generateHash(def) ==
    LET m == Marshal(def)
    IN  IF m.err THEN [hash |-> NilHash, err |-> TRUE]
        ELSE [hash |-> Sha256(m.bytes), err |-> FALSE]

\* the hashes CompareHash is asked about
Hashes == {NilHash} \cup {Sha256(<<"ndf", i>>) : i \in DefIDs}

\* bytes.Compare(a, b) == 0
bytesEqual(a, b) == a = b

\* what the Ndf held
Stored == [f |-> nf, pb |-> npb, hash |-> nhash]

\* no call on the Ndf yet
NoNdfCall == [update |-> "none", h |-> NilHash, equal |-> FALSE]

\* the other variables of the model
notNdf == <<wrVars, reVars, hostVars, circVars, regVars>>

\* NewNdf(definition) for a definition that can be hashed
NewNdfCall(definition) ==
    /\ nf = NilDef
    /\ ~generateHash(definition).err
    /\ nf' = definition
    /\ npb' = NilMsg
    /\ nhash' = generateHash(definition).hash
    /\ nprev' = [f |-> definition, pb |-> NilMsg, hash |-> generateHash(definition).hash]
    /\ nres' = NoNdfCall
    /\ UNCHANGED notNdf

\* Ndf.Update(m, e2eGroup, cmixGroup)
UpdateCall(m) ==
    /\ nf # NilDef
    /\ nprev' = Stored
    /\ LET d == DecodeNDF(m.Ndf)
           g == generateHash(d.def)
       IN  IF d.err
           THEN /\ nres' = [NoNdfCall EXCEPT !.update = "error"]
                /\ UNCHANGED <<nf, npb, nhash>>
           ELSE /\ npb' = m
                /\ nf' = d.def
                /\ nhash' = g.hash
                /\ nres' = [NoNdfCall EXCEPT
                               !.update = IF g.err THEN "error" ELSE "nil"]
    /\ UNCHANGED notNdf

\* Ndf.CompareHash(h)
CompareHashCall(h) ==
    /\ nf # NilDef
    /\ nres' = [nres EXCEPT !.h = h, !.equal = bytesEqual(nhash, h)]
    /\ UNCHANGED <<nf, npb, nhash, nprev>>
    /\ UNCHANGED notNdf

\* no Ndf yet
InitNdf ==
    /\ nf = NilDef
    /\ npb = NilMsg
    /\ nhash = NilHash
    /\ nprev = [f |-> NilDef, pb |-> NilMsg, hash |-> NilHash]
    /\ nres = NoNdfCall

\* ndf.NO_NDF, the text permissioning answers with while it has no NDF
NO_NDF == "NO_NDF"

\* no error
NoErr == <<>>

\* the texts of the errors RequestNdf returns, word by word
ErrTexts == {<<"rpc", "error">>, <<"rpc", "error", NO_NDF>>, <<NO_NDF, "error">>}

\* what a RequestNdf call returns: nil and the error of the send, a message
\* and the error of UnmarshalAny, or the message permissioning answered
\* with, its Ndf nil or not
ReqAnswers ==
    [response : {NilMsg}, err : ErrTexts]
        \cup [response : {[Ndf |-> NilText]}, err : {<<"unmarshal", "error">>}]
        \cup [response : {[Ndf |-> NilText]} \cup NdfMsgs, err : {NoErr}]

\* mutant: every error is taken for the answer "no NDF yet"
Contains_Any(text, word) == TRUE

\* strings.Contains(err.Error(), ndf.NO_NDF)
Contains(text, word) == \E i \in 1..Len(text) : text[i] = word

\* what RetrieveNdf returns
Retrieved(def, err) == [def |-> def, err |-> err]

\* the other variables of the model
notReg == <<wrVars, reVars, hostVars, circVars, ndfVars>>

\* RetrieveNdf(currentDef), lines 129-147: the hash of currentDef, and the
\* permissioning host
RetrieveBegin(currentDef, hostKnown) ==
    /\ qpc = "idle"
    /\ IF currentDef # NilDef /\ Marshal(currentDef).err
       THEN /\ qres' = Retrieved(NilDef, "marshal")
            /\ qpc' = "done"
       ELSE IF ~hostKnown
       THEN /\ qres' = Retrieved(NilDef, "no host")
            /\ qpc' = "done"
       ELSE /\ qpc' = "request"
            /\ UNCHANGED qres
    /\ UNCHANGED <<qresp, qerr, answers>>
    /\ UNCHANGED notReg

\* response, err = c.RequestNdf(regHost, msg), lines 150 and 164; the
\* requests of a call are followed up to a cap
RequestNdfCall(ans) ==
    /\ qpc = "request"
    /\ Len(answers) < MaxRequests
    /\ qresp' = ans.response
    /\ qerr' = ans.err
    /\ answers' = Append(answers, ans)
    /\ qpc' = "loop"
    /\ UNCHANGED qres
    /\ UNCHANGED notReg

\* lines 153-183: the loop over the error, and after it the answer
LoopStep ==
    /\ qpc = "loop"
    /\ IF qerr # NoErr
       THEN IF ~Contains(qerr, NO_NDF)
            THEN /\ qres' = Retrieved(NilDef, "request")
                 /\ qpc' = "done"
            ELSE /\ qpc' = "request"
                 /\ UNCHANGED qres
       ELSE /\ qpc' = "done"
            /\ IF qresp = NilMsg \/ qresp.Ndf = NilText
               THEN qres' = Retrieved(NilDef, "nil")
               ELSE IF DecodeNDF(qresp.Ndf).err
               THEN qres' = Retrieved(NilDef, "decode")
               ELSE qres' = Retrieved(DecodeNDF(qresp.Ndf).def, "nil")
    /\ UNCHANGED <<qresp, qerr, answers>>
    /\ UNCHANGED notReg

\* no RetrieveNdf call yet
InitReg ==
    /\ qpc = "idle"
    /\ qresp = NilMsg
    /\ qerr = NoErr
    /\ answers = <<>>
    /\ qres = Retrieved(NilDef, "none")

\* an empty registry: no AddRoundEvent and no TriggerRoundEvent call yet
InitRE ==
    /\ callbacks = [x \in {} |-> NoBuckets]
    /\ evRid = [e \in Events |-> 0]
    /\ evStates = [e \in Events |-> {}]
    /\ signal = [e \in Events |-> <<>>]
    /\ apc = [e \in Events |-> "idle"]
    /\ ewpc = [e \in Events |-> "idle"]
    /\ etimer = [e \in Events |-> FALSE]
    /\ rmpc = [e \in Events |-> "idle"]
    /\ cb = [e \in Events |-> <<>>]
    /\ tpc = [t \in Triggers |-> "idle"]
    /\ tri = [t \in Triggers |-> NoRound]
    /\ tcur = [t \in Triggers |-> 0]
    /\ tevents = [t \in Triggers |-> {}]
    /\ tlate = [t \in Triggers |-> {}]
    /\ delivered = {}

\* NewWaitingRounds: an empty list; no call has been made
InitWR ==
    /\ rounds = <<>>
    /\ lastState = [id \in RoundIDs |-> 0]
    /\ lastOp = "none"
    /\ cpc = [c \in Callers |-> "idle"]
    /\ timerC = [c \in Callers |-> FALSE]
    /\ sig = [c \in Callers |-> 0]
    /\ wpc = [c \in Callers |-> "idle"]
    /\ result = [c \in Callers |-> NoResult]
    /\ sawEmpty = [c \in Callers |-> FALSE]
    /\ sawNonEmpty = [c \in Callers |-> FALSE]
    /\ dueRound = [c \in Callers |-> FALSE]
    /\ emptyWakeups = [c \in Callers |-> 0]
    /\ gpc = "idle"
    /\ slice = <<>>
    /\ inserted = {}
    /\ once = TRUE
    /\ muxW = FALSE
    /\ muxR = {}
    /\ cL = NoHolder
    /\ ipc = "idle"
    /\ ins = NilRound
    /\ rpc = [op \in ReadOps |-> "idle"]
    /\ failed = "none"

Init == InitWR /\ InitRE /\ InitHost /\ InitCirc /\ InitNdf /\ InitReg

\* a thread of the network feed calls Insert
InsertCall ==
    \E newRound \in RoundInfos :
        /\ newRound.State = QUEUED => Len(rounds) < MaxLen
        /\ Insert(newRound)
        /\ Observe(newRound)

\* the same, while GetUpcomingRealtime callers run
InsertCallWR ==
    \E newRound \in WaitRoundInfos :
        /\ newRound.State = QUEUED => Len(rounds) < MaxWaitLen
        /\ Insert(newRound)
        /\ Unobserved

\* the same, while a thread holds a slice from GetSlice
InsertCallGS ==
    \E newRound \in RoundInfos :
        /\ newRound.State = QUEUED => Len(rounds) < MaxWaitLen
        /\ Insert(newRound)
        /\ Unobserved

NextIns == InsertCall

NextGS ==
    \/ InsertCallGS
    \/ GetSliceCall
    \/ \E i \in 1..MaxWaitLen, ts \in Times : SliceWrite(i, ts)
    \/ \E i \in 1..MaxWaitLen, r \in RoundInfos : SliceStore(i, r)

NextWR ==
    \/ InsertCallWR
    \/ \E c \in Callers : Call(c)
    \/ \E c \in Callers : TimerFire(c)
    \/ \E c \in Callers : WaiterWait(c)
    \/ \E c \in Callers : WaiterSend(c)
    \/ \E c \in Callers : CheckFirst(c)
    \/ \E c \in Callers : SelectTimer(c)
    \/ \E c \in Callers : SelectSig(c)

NextRE ==
    \/ \E e \in Events, rid \in RoundIDs, validStates \in (SUBSET EventStates) \ {{}} :
          AddSpawn(e, rid, validStates)
    \/ \E e \in Events : AddRegister(e)
    \/ \E e \in Events : EventTimerFire(e)
    \/ \E e \in Events : WaiterTimeout(e)
    \/ \E e \in Events : WaiterSignal(e)
    \/ \E e \in Events : CallbackReturn(e)
    \/ \E e \in Events : RemoveRun(e)
    \/ \E t \in Triggers, ri \in TriggerInfos : TriggerBegin(t, ri)
    \/ \E t \in Triggers, e \in Events : TriggerRange(t, e)
    \/ \E t \in Triggers : TriggerSend(t)
    \/ \E t \in Triggers : TriggerFinish(t)

SpecIns == Init /\ [][NextIns]_vars

SpecWR == Init /\ [][NextWR]_vars

SpecGS == Init /\ [][NextGS]_vars

NextLK ==
    \/ \E newRound \in LockRoundInfos : InsertWant(newRound)
    \/ InsertLock
    \/ InsertBody
    \/ InsertCondLock
    \/ InsertBroadcast
    \/ \E c \in Callers : CallEnter(c)
    \/ \E c \in Callers : CallTimerFire(c)
    \/ \E c \in Callers : FurthestRLock(c)
    \/ \E c \in Callers : FurthestRead(c)
    \/ \E c \in Callers : CallSelectTimer(c)
    \/ \E c \in Callers : CallSelectSig(c)
    \/ \E c \in Callers : WaiterLock(c)
    \/ \E c \in Callers : WaiterCondWait(c)
    \/ \E c \in Callers : WaiterRelock(c)
    \/ \E c \in Callers : WaiterUnlockSend(c)
    \/ LenEnter
    \/ LenReturn
    \/ SliceRLock
    \/ SliceReturn

SpecLK == Init /\ [][NextLK]_vars

NextBad ==
    \/ InsertBad
    \/ \E e \in Events, rid \in RoundIDs, validStates \in (SUBSET EventStates) \ {{}} :
          AddSpawn(e, rid, validStates)
    \/ \E e \in Events : AddRegister(e)
    \/ \E t \in Triggers, ri \in BadTriggerInfos : TriggerBad(t, ri)

SpecBad == Init /\ [][NextBad]_vars

\* the scheduler runs every goroutine that can take its step: a thread
\* inside a lock call gets the lock once it stays free, a thread that holds
\* a lock goes on to release it
FairSpecLK ==
    /\ SpecLK
    /\ WF_vars(InsertLock)
    /\ WF_vars(InsertBody)
    /\ WF_vars(InsertCondLock)
    /\ WF_vars(InsertBroadcast)
    /\ WF_vars(SliceReturn)
    /\ \A c \in Callers :
          /\ WF_vars(FurthestRead(c))
          /\ WF_vars(WaiterCondWait(c))
          /\ WF_vars(WaiterUnlockSend(c))

NextHost ==
    \/ \E disableTimeout \in BOOLEAN : NewHostCall(disableTimeout)
    \/ \E c \in Conns, st \in ConnStates : ConnChange(c, st)
    \/ \E s \in Senders, kind \in {"send", "stream"} : SendRLock(s, kind)
    \/ \E s \in Senders : SendCheck(s)
    \/ \E s \in Senders : SendReturn(s)
    \/ ConnectLock
    \/ ConnectCheck
    \/ LoopCond
    \/ \E ok \in BOOLEAN : Dial(ok, MaxDials)
    \/ Verify
    \/ DisconnectLock
    \/ DisconnectClose
    \/ DisconnectReturn
    \/ AuthLock
    \/ \E ok \in BOOLEAN : AuthHandshake(ok)
    \/ AuthReturn

SpecHost == Init /\ [][NextHost]_vars

\* one thread calls connect again and again while the network changes the
\* state of the connection
NextDial ==
    \/ \E disableTimeout \in BOOLEAN : NewHostCall(disableTimeout)
    \/ \E c \in Conns, st \in ConnStates : ConnChange(c, st)
    \/ ConnectLock
    \/ ConnectCheck
    \/ LoopCond
    \/ \E ok \in BOOLEAN : Dial(ok, MaxAttempts)
    \/ Verify

SpecDial == Init /\ [][NextDial]_vars

NextCirc ==
    \/ \E list \in NodeLists : NewCall(list)
    \/ \E from \in Nodes : GetNextNodeCall(from)
    \/ \E from \in Nodes : GetPrevNodeCall(from)
    \/ GetOrderingCall

SpecCirc == Init /\ [][NextCirc]_vars

NextNdf ==
    \/ \E definition \in NdfDefs : NewNdfCall(definition)
    \/ \E m \in NdfMsgs : UpdateCall(m)
    \/ \E h \in Hashes : CompareHashCall(h)

SpecNdf == Init /\ [][NextNdf]_vars

NextReg ==
    \/ \E currentDef \in NdfDefs \cup {NilDef}, hostKnown \in BOOLEAN :
          RetrieveBegin(currentDef, hostKnown)
    \/ \E ans \in ReqAnswers : RequestNdfCall(ans)
    \/ LoopStep

SpecReg == Init /\ [][NextReg]_vars

SpecRE == Init /\ [][NextRE]_vars

\* the runtime fires every timer, and the scheduler runs every goroutine
\* that can take a step of its select
FairSpecRE ==
    /\ SpecRE
    /\ \A e \in Events :
          /\ WF_vars(EventTimerFire(e))
          /\ WF_vars(WaiterTimeout(e))
          /\ WF_vars(WaiterSignal(e))

(***************************************************************************)
(* Claims about WaitingRounds.                                             *)
(***************************************************************************)
HasID(s, id) == \E i \in 1..Len(s) : s[i].ID = id

\* C1: after any sequence of Insert calls the entries GetSlice returns are
\* in non-decreasing order of realtime timestamp.
C1_SliceOrdered ==
    \A i \in 1..(Len(GetSlice) - 1) :
        getTime(GetSlice[i]) <= getTime(GetSlice[i + 1])

\* three entries with three different times are held after an Insert has
\* removed an entry
C1_Witness ==
    /\ Len(GetSlice) = 3
    /\ getTime(GetSlice[1]) < getTime(GetSlice[2])
    /\ getTime(GetSlice[2]) < getTime(GetSlice[3])
    /\ \E id \in RoundIDs : lastState[id] = REALTIME

\* C2: after any sequence of Insert calls the list holds at most one entry
\* per round id.
C2_OneEntryPerId ==
    \A i, j \in 1..Len(rounds) : rounds[i].ID = rounds[j].ID => i = j

\* C3: a round id appears in GetSlice if and only if the most recent Insert
\* for that id carried state QUEUED.
C3_PresentIffLastQueued ==
    \A id \in RoundIDs : HasID(GetSlice, id) <=> lastState[id] = QUEUED

\* C4: an Insert of a round with a non-QUEUED state whose id has an entry
\* makes Len smaller by exactly 1 and leaves the entries of the other ids,
\* and their order, as they were.
C4_RemovesExactlyOne ==
    [][\A newRound \in RoundInfos :
          (newRound.State # QUEUED /\ HasID(rounds, newRound.ID) /\ Insert(newRound))
          => /\ Len(rounds') = Len(rounds) - 1
             /\ OtherIDs(rounds', newRound.ID) = OtherIDs(rounds, newRound.ID)]_vars

\* the last Insert removed an entry and left two entries, of two ids
C4_Witness ==
    /\ lastOp = "removed"
    /\ Len(rounds) = 2
    /\ rounds[1].ID # rounds[2].ID

\* C5: a GetUpcomingRealtime call whose first look found the list empty, and
\* for which a round was in the list when its timer fired and no round was
\* removed afterwards, returns a round and a nil error.  Stated for the calls
\* that were never woken through sig and have no wakeup on its way when they
\* return (sig empty, waiter not woken), so that a select that picked the
\* timer while sig was ready does not count.
C5_InsertBeforeTimeoutIsReturned ==
    \A c \in Callers :
        (/\ cpc[c] = "done"
         /\ dueRound[c]
         /\ emptyWakeups[c] = 0
         /\ sig[c] = 0
         /\ wpc[c] # "woken")
        => (result[c].err = "nil" /\ result[c].round # NilRound)

\* C6: a GetUpcomingRealtime call during which the list was empty all the
\* time returns a nil round and the timed-out error, and the timed-out error
\* is returned only after the timer has fired.
C6_EmptyListTimesOut ==
    \A c \in Callers :
        /\ (cpc[c] = "done" /\ ~sawNonEmpty[c])
              => result[c] = Returned(NilRound, "timeOutError", "timer")
        /\ (cpc[c] = "done" /\ result[c].err = "timeOutError") => timerC[c]

\* a call has returned the timed-out error on a list that stayed empty
C6_Witness ==
    \E c \in Callers :
        /\ cpc[c] = "done"
        /\ ~sawNonEmpty[c]
        /\ result[c].err = "timeOutError"

\* C7: a caller whose wakeup by sig found the list empty again is still
\* woken by a later QUEUED Insert: if a round was in the list when the timer
\* fired and no round was removed afterwards, the call returns a round and a
\* nil error.
C7_RecheckAfterEveryBroadcast ==
    \A c \in Callers :
        (/\ cpc[c] = "done"
         /\ dueRound[c]
         /\ emptyWakeups[c] >= 1)
        => (result[c].err = "nil" /\ result[c].round # NilRound)

\* C8: a GetUpcomingRealtime call during which the list held a round all the
\* time returns a round with a nil error from its first look at the list,
\* without entering the select on sig and the timer.
C8_NonEmptyListNoWait ==
    \A c \in Callers :
        /\ ~sawEmpty[c] => cpc[c] # "select"
        /\ (cpc[c] = "done" /\ ~sawEmpty[c])
              => /\ result[c].err = "nil"
                 /\ result[c].round # NilRound
                 /\ result[c].path = "nowait"

\* a call made on a list with two rounds has returned, and its timer had
\* fired by then
C8_Witness ==
    \E c \in Callers :
        /\ cpc[c] = "done"
        /\ ~sawEmpty[c]
        /\ timerC[c]
        /\ Len(rounds) = 2


\* the positions of the list s whose round id is not in the set exclude
Eligible(s, exclude) == {i \in 1..Len(s) : s[i].ID \notin exclude}

\* C17: whatever exclusion set its caller has, getFurthest never returns a
\* round whose id is in the set: it returns the last entry of the list whose
\* id is not excluded, and nil when every entry is excluded.  getFurthest
\* has no parameter for the set, so the call for any set is getFurthest().
C17_ExcludedNeverReturned ==
    \A exclude \in SUBSET RoundIDs :
        LET round == getFurthest(rounds)
            cand == Eligible(rounds, exclude)
        IN  /\ round # NilRound => round.ID \notin exclude
            /\ cand = {} => round = NilRound
            /\ cand # {} =>
                 round = rounds[CHOOSE i \in cand : \A j \in cand : j <= i]

SliceRounds(sl) == [k \in 1..Len(sl) |-> sl[k].round]

\* C19: the slice GetSlice returned is a copy: an Insert leaves the slice
\* and its rounds as they were, and a change of the slice, or of a round of
\* the slice, leaves the list as it was.
C19_SliceIsCopy ==
    [][/\ \A newRound \in RoundInfos :
             Insert(newRound) => SliceRounds(slice') = SliceRounds(slice)
       /\ \A i \in 1..MaxWaitLen, r \in RoundInfos :
             SliceStore(i, r) => rounds' = rounds
       /\ \A i \in 1..MaxWaitLen, ts \in Times :
             SliceWrite(i, ts) => rounds' = rounds]_vars

\* the rounds of state QUEUED among the rounds given to Insert
InsertedQueued == {r \in inserted : r.State = QUEUED}

\* C20: after Insert calls whose rounds have pairwise different ids and
\* pairwise different realtime timestamps, GetSlice holds exactly the rounds
\* given with state QUEUED, in ascending order of time, and Len is their
\* number: the set of rounds given fixes the result, whatever their order.
C20_OrderIndependent ==
    once =>
        /\ WRLen = Cardinality(InsertedQueued)
        /\ Len(GetSlice) = WRLen
        /\ {GetSlice[i] : i \in 1..Len(GetSlice)} = InsertedQueued
        /\ \A i \in 1..(Len(GetSlice) - 1) :
              getTime(GetSlice[i]) < getTime(GetSlice[i + 1])

\* two rounds of different ids and times were given, both QUEUED, and the
\* list holds them
C20_Witness ==
    /\ once
    /\ Cardinality(InsertedQueued) = 2
    /\ WRLen = 2
    /\ rounds[1].ID = 2

\* C21: a QUEUED round of a new id is placed behind every entry of the same
\* realtime timestamp: among equal times the round inserted first comes
\* first in GetSlice.
C21_TiesByArrival ==
    [][\A newRound \in RoundInfos :
          (/\ newRound.State = QUEUED
           /\ ~HasID(rounds, newRound.ID)
           /\ Insert(newRound))
          => \A i, j \in 1..Len(rounds') :
                (/\ rounds'[j] = newRound
                 /\ rounds'[i].ID # newRound.ID
                 /\ getTime(rounds'[i]) = getTime(newRound))
                => i < j]_vars

\* C22: a GetUpcomingRealtime call that has returned has returned a round
\* and a nil error, or nil and the timed-out error.
C22_RoundOrTimeout ==
    \A c \in Callers :
        cpc[c] = "done" =>
            \/ (result[c].round # NilRound /\ result[c].err = "nil")
            \/ (result[c].round = NilRound /\ result[c].err = "timeOutError")

\* a call has returned a round after a wakeup that found the list empty and
\* a second look
C22_Witness ==
    \E c \in Callers :
        /\ cpc[c] = "done"
        /\ result[c].path = "sig"
        /\ result[c].round # NilRound
        /\ sawEmpty[c]

\* C25: an Insert of a round with a non-QUEUED state whose id has no entry
\* leaves the list as it was.
C25_AbsentRemoveIsNoOp ==
    [][\A newRound \in RoundInfos :
          (/\ newRound.State # QUEUED
           /\ ~HasID(rounds, newRound.ID)
           /\ Insert(newRound))
          => rounds' = rounds]_vars

\* the last Insert changed nothing on a list of two entries (which are of
\* one id, the Insert being for the other)
C25_Witness ==
    /\ lastOp = "none"
    /\ WRLen = 2
    /\ \E id \in RoundIDs : lastState[id] = REALTIME /\ ~HasID(rounds, id)

C29_WaiterEndsWithCall ==
    \A c \in Callers : cpc[c] = "done" => wpc[c] # "wait"

\* C23: Len, GetSlice and getFurthest read the list only with wr.mux held
\* as a reader, and Insert changes it only with wr.mux held as the writer:
\* no thread is reading while the writer holds the lock.
C23_ReadsUnderSharedLock ==
    /\ \A op \in ReadOps :
          rpc[op] = "reading" => (Holder(op, 0) \in muxR /\ ~muxW)
    /\ \A c \in Callers :
          cpc[c] = "reading" => (Holder("caller", c) \in muxR /\ ~muxW)
    /\ ipc \in {"locked", "mutated", "cond"} => (muxW /\ muxR = {})

\* C24: a thread that is blocked (a waiter in wr.c.Wait(), a caller in its
\* select) holds neither wr.mux nor wr.c.L, nobody but the thread in Insert
\* holds wr.c.L together with wr.mux, and an Insert call that has been made
\* returns.
C24_InsertCompletes ==
    /\ [](\A c \in Callers :
            /\ wpc[c] \in {"wait", "woken"} => cL # Holder("waiter", c)
            /\ cpc[c] \in {"select", "done"} => Holder("caller", c) \notin muxR
            /\ cL = Holder("waiter", c) => wpc[c] \in {"locked", "relocked"})
    /\ (ipc = "want") ~> (ipc = "idle")

\* an Insert has returned while a caller sits in its select, its waiter
\* woken by the Broadcast, and a GetSlice holds the read lock
C24_Witness ==
    \E c \in Callers :
        /\ cpc[c] = "select"
        /\ wpc[c] = "woken"
        /\ ipc = "idle"
        /\ rounds # <<>>
        /\ rpc["GetSlice"] = "reading"

(***************************************************************************)
(* Claims about RoundEvents.                                               *)
(***************************************************************************)
\* C9: the callback of every AddRoundEvent registration is called exactly
\* once: never more than once (so never with timedOut=false and also with
\* timedOut=true), a waiter goroutine that has ended has called it, and once
\* the waiter is in its select, where the timer can fire, the call comes.
C9_CallbackExactlyOnce ==
    /\ [](\A e \in Events :
            /\ Len(cb[e]) <= 1
            /\ ewpc[e] = "done" => Len(cb[e]) = 1)
    /\ \A e \in Events : (ewpc[e] = "select") ~> (Len(cb[e]) = 1)

\* an event was called back with timedOut=true and holds a round that a
\* TriggerRoundEvent sent to it, and another event was called back with
\* timedOut=false
C9_Witness ==
    \E e, f \in Events :
        /\ Len(cb[e]) = 1 /\ cb[e][1].timedOut
        /\ signal[e] # <<>>
        /\ Len(cb[f]) = 1 /\ ~cb[f][1].timedOut

\* C10: an event that a returned TriggerRoundEvent call has sent to is in no
\* map of the registry, whatever its states, and a TriggerRoundEvent call
\* that begins after that return sends nothing to it.
C10_DeliveredEventRemoved ==
    /\ \A e \in delivered : \A rid \in DOMAIN callbacks : \A s \in StateIdx :
          e \notin callbacks[rid][s]
    /\ \A t \in Triggers : tlate[t] \cap (tevents[t] \cup {tcur[t]}) = {}

\* an event with two states has been delivered to by a call that returned,
\* and a later call for the same round and the other state of the event is
\* under way
C10_Witness ==
    \E e \in Events, t \in Triggers :
        /\ e \in tlate[t]
        /\ tpc[t] = "send"
        /\ evStates[e] = EventStates
        /\ tri[t].ID = evRid[e]
        /\ Len(cb[e]) = 1 /\ ~cb[e][1].timedOut
        /\ cb[e][1].ri.State # tri[t].State

\* the events some TriggerRoundEvent call, returned or under way, has sent to
Triggered == delivered \cup UNION {tevents[t] : t \in Triggers}

\* C11: an event that a TriggerRoundEvent(ri) call took from the map of
\* ri.ID and ri.State and sent to, and whose timer has not fired, has its
\* callback called with timedOut=false and with the ri of that call.
C11_TriggerCallsBackWithItsRound ==
    \A t \in Triggers : \A e \in tevents[t] :
        (cb[e] # <<>> /\ ~etimer[e]) => cb[e] = <<Invocation(tri[t], FALSE)>>

\* C12: an event no TriggerRoundEvent call has sent to is called back only
\* after its timer has fired, with timedOut=true and a round that has the ID
\* given to AddRoundEvent and nothing else; and the call comes.
C12_TimeoutCallsBackWithZeroRound ==
    /\ [](\A e \in Events :
            (cb[e] # <<>> /\ e \notin Triggered)
            => (etimer[e] /\ cb[e] = <<[ri |-> [ID |-> evRid[e], State |-> 0], timedOut |-> TRUE]>>))
    /\ \A e \in Events :
          (ewpc[e] = "select" /\ e \notin Triggered)
          ~> (e \in Triggered \/ cb[e] = <<[ri |-> [ID |-> evRid[e], State |-> 0], timedOut |-> TRUE]>>)

\* an event registered for a round was called back with timedOut=true and
\* removed, no TriggerRoundEvent call having sent to it, while a call for
\* another event has been made
C12_Witness ==
    \E e \in Events :
        /\ cb[e] = <<[ri |-> [ID |-> evRid[e], State |-> 0], timedOut |-> TRUE]>>
        /\ e \notin Triggered
        /\ apc[e] = "done"
        /\ rmpc[e] = "done"
        /\ delivered # {}

\* C13: when every AddRoundEvent call for a round id has returned, every
\* waiter of the round has called back, every Remove started for it has run
\* and no TriggerRoundEvent call is under way, r.callbacks has no entry for
\* the round id.
C13_NoEntryAfterAllDone ==
    \A rid \in RoundIDs :
        (/\ \A e \in Events : evRid[e] = rid =>
                /\ apc[e] = "done"
                /\ cb[e] # <<>>
                /\ rmpc[e] \in {"idle", "done"}
         /\ \A t \in Triggers : tpc[t] \in {"idle", "done"})
        => rid \notin DOMAIN callbacks

\* C14: no TriggerRoundEvent call is at a send that cannot complete: the
\* channel it sends to has room, or the waiter that would take the value out
\* is still in its select.
C14_SendNeverStuck ==
    \A t \in Triggers :
        tpc[t] = "send" =>
            (Len(signal[tcur[t]]) < 1 \/ ewpc[tcur[t]] = "select")

\* C15: at most one thread is inside the code that reads or changes
\* r.callbacks: no two TriggerRoundEvent calls are between their RLock and
\* their RUnlock at the same time.
C15_RegistryLockExclusive ==
    \A t, u \in Triggers :
        (tpc[t] \in {"range", "send"} /\ tpc[u] \in {"range", "send"}) => t = u

\* C16: while a callback runs, and when it never returns, its waiter holds
\* no lock and nothing waits for it: a TriggerRoundEvent call that has sent
\* to all events returns, a send to a channel with room completes, the
\* exclusive lock is free for AddRoundEvent and Remove unless a
\* TriggerRoundEvent call holds the read lock, the waiters of the other
\* events take their cases, and new AddRoundEvent and TriggerRoundEvent
\* calls (the callback's own among them) can be made.
C16_CallbackHoldsNoLock ==
    (\E e \in Events : ewpc[e] = "callback") =>
        /\ \A t \in Triggers :
              /\ (tpc[t] = "range" /\ TriggerMap(t) \ tevents[t] = {})
                    => ENABLED TriggerFinish(t)
              /\ (tpc[t] = "send" /\ Len(signal[tcur[t]]) < 1)
                    => ENABLED TriggerSend(t)
              /\ (tpc[t] = "idle" /\ \A x \in Triggers : x < t => tpc[x] # "idle")
                    => \A ri \in TriggerInfos : ENABLED TriggerBegin(t, ri)
        /\ \A f \in Events :
              /\ (apc[f] = "spawned" /\ CanLock) => ENABLED AddRegister(f)
              /\ (rmpc[f] = "pending" /\ CanLock) => ENABLED RemoveRun(f)
              /\ (ewpc[f] = "select" /\ etimer[f]) => ENABLED WaiterTimeout(f)
              /\ (ewpc[f] = "select" /\ signal[f] # <<>>) => ENABLED WaiterSignal(f)
              /\ (apc[f] = "idle" /\ \A x \in Events : x < f => apc[x] # "idle")
                    => ENABLED AddSpawn(f, 1, {QUEUED})

\* the TriggerRoundEvent call that sent to an event has returned while the
\* callback of the event is still running, and an AddRoundEvent and a
\* TriggerRoundEvent call begun after that have called back another event
C16_Witness ==
    \E e, f \in Events :
        /\ e < f
        /\ ewpc[e] = "callback"
        /\ e \in delivered
        /\ f \in delivered
        /\ ewpc[f] = "done"
        /\ \A t \in Triggers : tpc[t] = "done"

\* C26: a callback is called with timedOut=false only with a round that a
\* TriggerRoundEvent call was given and sent to the event, with the round id
\* of the registration as ID and one of the states given to AddRoundEvent
\* as State.
C26_SignalledRoundMatches ==
    /\ [](\A e \in Events :
            /\ \A k \in 1..Len(cb[e]) :
                  ~cb[e][k].timedOut =>
                      /\ cb[e][k].ri.ID = evRid[e]
                      /\ cb[e][k].ri.State \in evStates[e]
            /\ \A k \in 1..Len(signal[e]) :
                  /\ signal[e][k].ID = evRid[e]
                  /\ signal[e][k].State \in evStates[e])
    /\ [][\A e \in Events :
             /\ Len(signal'[e]) > Len(signal[e]) =>
                   \E t \in Triggers :
                       /\ tpc[t] = "send"
                       /\ tcur[t] = e
                       /\ signal'[e] = Append(signal[e], tri[t])
             /\ (Len(cb'[e]) > Len(cb[e]) /\ ~cb'[e][Len(cb'[e])].timedOut) =>
                   /\ signal[e] # <<>>
                   /\ cb'[e][Len(cb'[e])].ri = Head(signal[e])]_vars

\* two events of one round, bound to different states, have each been
\* called back with the round of its own state
C26_Witness ==
    \E e, f \in Events :
        /\ e # f
        /\ evRid[e] = evRid[f]
        /\ evStates[e] = {QUEUED}
        /\ evStates[f] = {REALTIME}
        /\ Len(cb[e]) = 1 /\ ~cb[e][1].timedOut
        /\ Len(cb[f]) = 1 /\ ~cb[f][1].timedOut

\* C30: the steps of a TriggerRoundEvent(ri) call leave alone every event
\* that is not in the map of ri.ID and ri.State and that the call has not
\* sent to: the event stays in the maps it is in and nothing is sent to it.
C30_OtherSubscriptionsUntouched ==
    [][\A t \in Triggers :
          (\/ TriggerSend(t)
           \/ TriggerFinish(t)
           \/ \E e \in Events : TriggerRange(t, e))
          => \A f \in Events :
                (f \notin tevents[t] /\ f # tcur[t] /\ f \notin TriggerMap(t))
                => /\ signal'[f] = signal[f]
                   /\ \A rid \in RoundIDs, st \in StateIdx :
                         (f \in Buckets(callbacks', rid)[st])
                            <=> (f \in Buckets(callbacks, rid)[st])]_vars

\* a TriggerRoundEvent call has sent to an event and returned, and an event
\* bound to another state of the same round is still registered, with
\* nothing sent to it
C30_Witness ==
    \E e \in delivered, f \in Events \ Triggered :
        /\ evRid[f] = evRid[e]
        /\ evStates[e] \cap evStates[f] = {}
        /\ apc[f] = "done"
        /\ evRid[f] \in DOMAIN callbacks
        /\ \A st \in evStates[f] : f \in callbacks[evRid[f]][st]
        /\ signal[f] = <<>>
        /\ cb[f] = <<>>

\* C31: a TriggerRoundEvent call made before AddRoundEvent has registered
\* the event is not remembered. While the event is not registered nothing
\* is in its channel, no call is sending or has sent to it and its callback
\* has not been called with timedOut=false; and at the step that registers
\* it every call begun before has returned, so only a later call reaches it.
C31_EarlyTriggerNotRemembered ==
    [][\A e \in Events :
          /\ apc[e] # "done" =>
                /\ signal[e] = <<>>
                /\ e \notin delivered
                /\ \A t \in Triggers : tcur[t] # e /\ e \notin tevents[t]
                /\ \A k \in 1..Len(cb[e]) : cb[e][k].timedOut
          /\ (apc[e] # "done" /\ apc'[e] = "done") =>
                \A t \in Triggers : tpc[t] \in {"idle", "done"}]_vars

\* two events bound to QUEUED of one round; every TriggerRoundEvent call
\* has returned and they sent to the first event only, although the second
\* is registered and still in the registry: the call that matched both was
\* made before the second was registered, and the second has timed out
C31_Witness ==
    /\ delivered = {1}
    /\ evRid[1] = evRid[2]
    /\ evStates[1] = {QUEUED} /\ evStates[2] = {QUEUED}
    /\ apc[2] = "done"
    /\ 2 \in Buckets(callbacks, evRid[2])[QUEUED]
    /\ \A t \in Triggers : tpc[t] = "done"
    /\ signal[2] = <<>>
    /\ cb[2] = <<Invocation([ID |-> evRid[2], State |-> 0], TRUE)>>

\* the host's connection is non-nil and in state Idle, Connecting or Ready
ConnAlive == hconn # 0 /\ cstate[hconn] \in {"Idle", "Connecting", "Ready"}

\* C32: a send or stream call that finds the connection nil or not in state
\* Idle, Connecting or Ready returns the error without calling its function,
\* and the function is called only from the check, with the connection that
\* was alive at the check.
C32_NotAliveIsError ==
    [][\A s \in Senders :
          /\ (spc[s] = "locked" /\ spc'[s] # "locked") =>
                IF ConnAlive
                THEN spc'[s] = "running" /\ sconn'[s] = hconn
                ELSE spc'[s] = "idle" /\ sres'[s] = "notAlive"
          /\ (spc'[s] = "running" /\ spc[s] # "running") =>
                spc[s] = "locked" /\ ConnAlive
          /\ (sres'[s] = "notAlive" /\ sres[s] # "notAlive") =>
                spc[s] = "locked" /\ ~ConnAlive]_vars

\* a send call has returned the error on a connection in TransientFailure,
\* and a stream call on the same host found it alive before and is running
C32_Witness ==
    \E s, r \in Senders :
        /\ sres[s] = "notAlive"
        /\ skind[s] = "send"
        /\ spc[s] = "idle"
        /\ hconn # 0
        /\ cstate[hconn] = "TransientFailure"
        /\ spc[r] = "running"
        /\ skind[r] = "stream"
        /\ sconn[r] = hconn

\* C33: while the function of a send or stream call runs, no connect,
\* Disconnect or authenticate call is inside its locked part, the host's
\* connection is the one the function was given and has not been closed,
\* and the token is the one the host had when the function was called.
C33_SendExcludesWriters ==
    \A s \in Senders :
        spc[s] = "running" =>
            /\ hmuxW = "none"
            /\ kpc = "idle" /\ dpc = "idle" /\ upc = "idle"
            /\ hconn = sconn[s]
            /\ cstate[sconn[s]] \in ConnStates \ {"Shutdown"}
            /\ htoken = stoken[s]

\* two send functions run on a host that has a token, after the network
\* has taken the connection to TransientFailure
C33_Witness ==
    /\ \A s \in Senders : spc[s] = "running" /\ stoken[s] = "token"
    /\ cstate[hconn] = "TransientFailure"
    /\ kres = "nil"

\* C34: a connect call makes at most maxRetries dial attempts; the loop
\* goes on to an attempt only when the connection is not alive at its
\* condition; the call returns an error exactly when the connection is not
\* alive at the check after the loop; connect returns nil without an attempt
\* when the connection is alive at its check.
C34_DialAttemptsBounded ==
    /\ [](dials <= hmaxRetries /\ dials = numRetries)
    /\ [][/\ dials' > dials =>
                kpc = "dial" /\ dials' = dials + 1
          /\ (kpc = "loop" /\ kpc' # "loop") =>
                IF ConnAlive \/ dials >= hmaxRetries
                THEN kpc' = "verify" /\ dials' = dials
                ELSE kpc' = "dial"
          /\ (kpc = "verify" /\ kpc' # "verify") =>
                /\ kpc' = "idle"
                /\ kres' = (IF ConnAlive THEN "nil" ELSE "error")
          /\ (kpc = "check" /\ kpc' # "check" /\ ConnAlive) =>
                /\ kpc' = "idle"
                /\ kres' = "nil"
                /\ dials' = 0
                /\ hconn' = hconn
                /\ cstate' = cstate]_vars

\* a connect call on a host with the default maxRetries has made 100
\* attempts and returned the error
C34_Witness ==
    /\ hmaxRetries = DefaultMaxRetries
    /\ dials = DefaultMaxRetries
    /\ kpc = "idle"
    /\ kres = "error"

\* C35: the timeout of dial attempt n is 2*(n/16+1) seconds, 15 seconds at
\* most; it is not smaller than the timeout of the attempt before, and with
\* maxRetries = 100 it is at most 14 seconds.
C35_DialTimeout ==
    kpc = "dial" =>
        /\ LET t == 2 * ((numRetries \div 16) + 1)
           IN  backoffs[2] = (IF t > 15 THEN 15 ELSE t) * Second
        /\ backoffs[1] <= backoffs[2]
        /\ hmaxRetries = DefaultMaxRetries => backoffs[2] <= 14 * Second

\* an attempt with the capped timeout of 15 seconds follows one with 14
C35_Witness ==
    /\ kpc = "dial"
    /\ backoffs = <<14 * Second, 15 * Second>>

\* C36: in a circuit GetPrevNode(GetNextNode(n)) = n and
\* GetNextNode(GetPrevNode(n)) = n for every node n, the node after the
\* last is the first and the node before the first is the last; the calls
\* return these nodes.
C36_NextPrevInverse ==
    circ # NoCircuit =>
        /\ \A n \in DOMAIN circ.nodeIndexes :
              /\ GetPrevNode(heap, circ, GetNextNode(heap, circ, n)) = n
              /\ GetNextNode(heap, circ, GetPrevNode(heap, circ, n)) = n
        /\ GetNextNode(heap, circ, corig[Len(corig)]) = corig[1]
        /\ GetPrevNode(heap, circ, corig[1]) = corig[Len(corig)]
        /\ (cres.op = "GetNextNode" /\ cres.from = corig[Len(corig)]) =>
              cres.node = corig[1]
        /\ (cres.op = "GetPrevNode" /\ cres.from = corig[1]) =>
              cres.node = corig[Len(corig)]

\* GetNextNode of the last of three nodes has returned the first, after a
\* GetOrdering call has written behind the nodes in their array
C36_Witness ==
    /\ Len(corig) = 3
    /\ heap[1][4] # 0
    /\ cres.op = "GetNextNode"
    /\ cres.from = corig[3]
    /\ cres.node = corig[1]

\* C37: GetOrdering returns Len() circuits, the node at index j of the i-th
\* being the original node at index (i+j) mod Len(); the circuit it is
\* called on keeps its node order.
C37_OrderingRotates ==
    /\ circ # NoCircuit => Elems(heap, circ.nodes) = corig
    /\ cres.op = "GetOrdering" =>
          /\ Len(cres.circuits) = Len(corig)
          /\ \A i \in 0..(Len(corig) - 1) :
                /\ Len(cres.circuits[i + 1]) = Len(corig)
                /\ \A j \in 0..(Len(corig) - 1) :
                      cres.circuits[i + 1][j + 1] =
                          corig[((i + j) % Len(corig)) + 1]

\* GetOrdering on three nodes, whose array has room for a fourth: the
\* appends of shiftLeft have written into that array
C37_Witness ==
    /\ cres.op = "GetOrdering"
    /\ Len(corig) = 3
    /\ heap[1][4] = corig[1]
    /\ Len(cres.circuits) = 3

\* C38: after an Update that returned an error the Ndf holds the
\* definition, the message and the hash it held before the call; after an
\* Update that returned nil, CompareHash(h) is true exactly for the hash of
\* the stored definition.
C38_FailedUpdateKeepsState ==
    /\ nres.update = "error" => Stored = nprev
    /\ nres.update = "nil" =>
          \A h \in Hashes :
              bytesEqual(nhash, h) <=> h = <<"sha256", "ndf", nf.id>>

\* the answer of a RequestNdf call is an error whose text holds NO_NDF
IsNoNdfAnswer(ans) ==
    /\ ans.err # NoErr
    /\ \E i \in 1..Len(ans.err) : ans.err[i] = NO_NDF

\* C39: RetrieveNdf sends again only after an error that holds NO_NDF, and
\* does not return on such an error; on any other error it returns an error;
\* on an answer without an NDF it returns (nil, nil); it returns a
\* definition only on an answer without error whose NDF decodes, and it is
\* the definition of that NDF.
C39_RetryOnlyOnNoNdf ==
    /\ \A k \in 1..(Len(answers) - 1) : IsNoNdfAnswer(answers[k])
    /\ (qpc = "done" /\ answers # <<>>) =>
          LET last == answers[Len(answers)]
          IN  /\ ~IsNoNdfAnswer(last)
              /\ last.err # NoErr =>
                    qres.def = NilDef /\ qres.err \notin {"nil", "none"}
              /\ (last.err = NoErr /\ last.response.Ndf = NilText) =>
                    qres = Retrieved(NilDef, "nil")
              /\ (last.err = NoErr /\ last.response.Ndf # NilText
                      /\ ~last.response.Ndf.wellFormed) =>
                    qres.def = NilDef /\ qres.err \notin {"nil", "none"}
              /\ qres.def # NilDef =>
                    /\ last.err = NoErr
                    /\ last.response.Ndf.wellFormed
                    /\ qres.def.id = last.response.Ndf.id
                    /\ qres.err = "nil"
    /\ (qpc = "done" /\ answers = <<>>) => qres.def = NilDef /\ qres.err \notin {"nil", "none"}
    /\ (qpc = "request" /\ answers # <<>>) => IsNoNdfAnswer(answers[Len(answers)])

\* a call has returned a definition after two answers "no NDF yet"
C39_Witness ==
    /\ qpc = "done"
    /\ Len(answers) = 3
    /\ IsNoNdfAnswer(answers[1])
    /\ IsNoNdfAnswer(answers[2])
    /\ qres.def # NilDef
    /\ qres.err = "nil"

\* C27: Insert of a QUEUED round without a realtime timestamp and
\* TriggerRoundEvent of a round with an unknown State complete: no call has
\* panicked, and no TriggerRoundEvent call has ended with the read lock held.
C27_MalformedInputAbsorbed ==
    /\ failed = "none"
    /\ \A t \in Triggers : tpc[t] # "panic"

=============================================================================
